---- MODULE Spec2Model ----
(***************************************************************************)
(* Model of the sigmet_raw client side (sigmet_raw_client.c, data.c,       *)
(* ray_headers.c) talking to the sigmet_raw daemon over a local stream     *)
(* socket, with the bulk and error channels passed as file descriptors.    *)
(* The client is translated from the source.  The daemon's source is not   *)
(* part of the repository files at hand: it is modelled from the           *)
(* specification (section 4.4 and 5) and from the declarations in          *)
(* sigmet_raw.h.                                                           *)
(***************************************************************************)
EXTENDS Integers, Sequences, FiniteSets, TLC

(***************************************************************************)
(* Bounds of the model.                                                    *)
(***************************************************************************)
MaxSwps == 2          \* sweeps in the daemon's volume: 1..MaxSwps
MaxRays == 2          \* rays per sweep: 1..MaxRays
MaxBins == 2          \* bins in a ray: 0..MaxBins
PipeCap == 2          \* units a pipe holds before a writer blocks
MaxErrTxt == 3        \* units of error text the daemon writes: 1..MaxErrTxt
VolHdrSz == 3         \* units making up one struct Sigmet_VolHdr
MaxAbbrvLen == 17     \* longest abbreviation a library caller passes
MaxSets == 2          \* setter calls of a library caller before it sends
MaxFd == 9            \* size of the client's descriptor table
SizeBits == 4         \* width of size_t in bits, scaled down
MaxSrcLen == 3        \* bytes at src of copy_bits_packed_right: 1..MaxSrcLen
RecWds == 2           \* 16-bit words of a record of the file after its raw_prod_bhdr
MaxToks == 3          \* compression tokens in the file given to the decoder: 1..MaxToks
MaxTokLen == 2        \* words of a literal token and of a zero run: 1..MaxTokLen
SunPathLen == 3       \* sizeof sa_un.sun_path, scaled down; paths have 0..SunPathLen + 1 characters
MaxDim == 3           \* create_3d_float_array: num_i, num_j, num_k are 0..MaxDim
PtrSz == 2            \* sizeof(float **) and sizeof(float *), scaled down
FloatSz == 1          \* sizeof(float), scaled down

(***************************************************************************)
(* Program constants.                                                      *)
(***************************************************************************)
SIGMET_DATA_TYPE_LEN == 16
SIGMET_TZ_STRLEN == 11
SIGMETRAW_RQST_IOVLEN == 3
SIGMETRAW_RPS_IOVLEN == 7
STDOUT_FILENO == 1
SizeofInt == 4        \* sizeof(int), sizeof(unsigned), sizeof(enum ...)
SizeofDouble == 8
EXIT_SUCCESS == 0
EXIT_FAILURE == 1

\* enum SigmetRaw_SubCmdN
SigmetRawExit == 0
SigmetRawVolumeHeaders == 1
SigmetRawSwpHeaders == 2
SigmetRawRayHeaders == 3
SigmetRawData == 4
SigmetRawCorx == 5

\* enum SigmetRaw_Status
SigmetRawError == 0
SigmetRawOkay == 1

\* order of the shared descriptors in the ancillary data (0-based in C)
SigmetRawErrFD == 0
SigmetRawHdrDataFD == 1

\* order of the slots of a response
RpsSlots == <<"Status", "NumSwps", "NumRays", "NumSwpBins", "SwpTm", "TZ", "Err">>

(***************************************************************************)
(* 32-bit integers.  An int is an integer in -2^31 .. 2^31 - 1.  An        *)
(* unsigned is the pair <<high 16 bits, low 16 bits>>.                     *)
(***************************************************************************)
UINT_MAX == <<65535, 65535>>
UOfNat(n) == <<n \div 65536, n % 65536>>
\* conversion of an int to unsigned: the value modulo 2^32
ToUnsigned(x) == <<(x \div 65536) % 65536, x % 65536>>
\* mutant of ToInt: values above INT_MAX become INT_MAX
ToIntSaturating(u) == IF u[1] >= 32768 THEN 2147483647 ELSE u[1] * 65536 + u[2]

\* conversion of an unsigned to int: values above INT_MAX wrap to negative
ToInt(u) == (IF u[1] >= 32768 THEN u[1] - 65536 ELSE u[1]) * 65536 + u[2]

\* bit k of a byte or of a mask word, bit 0 being the least significant
Bit(byte, k) == (byte \div (2 ^ k)) % 2

(***************************************************************************)
(* Strings are sequences of character codes; 0 is the NUL terminator.      *)
(***************************************************************************)
DB_DBZ == <<68, 66, 95, 68, 66, 90>>
DB_TEMPERATURE16 == <<68, 66, 95, 84, 69, 77, 80, 69, 82, 65, 84, 85, 82, 69, 49, 54>>
TZ_UTC == <<85, 84, 67, 43, 48, 48, 58, 48, 48>>        \* "UTC+00:00"

\* the floats NAN and 0.0
NaN == <<"NaN">>
ZeroVal == <<"0.0">>

\* the i-th character of the abbreviations a library caller passes
AbbrvChar(i) == 65 + (i % 26)
Abbrv(n) == [i \in 1..n |-> AbbrvChar(i)]

Zeros(n) == [i \in 1..n |-> 0]
Min(a, b) == IF a < b THEN a ELSE b

\* the C string held in a byte array: the bytes before the first NUL
RECURSIVE CStr(_)
CStr(b) == IF b = <<>> \/ Head(b) = 0 THEN <<>> ELSE <<Head(b)>> \o CStr(Tail(b))

\* a zero padded field of n bytes holding string s
Padded(s, n) == [i \in 1..n |-> IF i <= Len(s) THEN s[i] ELSE 0]

\* the four bytes of an unsigned and of an int in memory (little-endian)
LEU(u) == <<u[2] % 256, u[2] \div 256, u[1] % 256, u[1] \div 256>>
LE4(x) == LEU(ToUnsigned(x))

\* four bytes of memory read as an unsigned and as an int
U32(b) == <<b[3] + 256 * b[4], b[1] + 256 * b[2]>>
I32(b) == ToInt(U32(b))

\* the eight bytes of the doubles 1000.0 (0x408F400000000000) and 0.0
DBL_1000 == <<0, 0, 0, 0, 0, 64, 143, 64>>
DBL_0 == <<0, 0, 0, 0, 0, 0, 0, 0>>

RECURSIVE Flatten(_)
Flatten(ss) == IF ss = <<>> THEN <<>> ELSE Head(ss) \o Flatten(Tail(ss))

RECURSIVE SumSeq(_)
SumSeq(s) == IF s = <<>> THEN 0 ELSE Head(s) + SumSeq(Tail(s))

Range(s) == {s[i] : i \in DOMAIN s}

(***************************************************************************)
(* State.                                                                  *)
(***************************************************************************)
VARIABLES
    arg,        \* what the client was asked: [cmd, s, abbrv]
    vol,        \* the volume the daemon holds: [num_swps, num_rays, num_bins, tz]
    pc,         \* position of the client
    req,        \* number of the request the client is working on (1 or 2)
    todo,       \* setter calls the client path still makes before it sends
    nsets,      \* setter calls a library caller has made
    rqst,       \* struct SigmetRaw_Rqst
    cfd,        \* descriptor table of the client process: descriptor -> open file
    loc,        \* the client's local descriptor variables
    exitCode,   \* exit code of the client process, -1 while it runs
    ret,        \* return value of the library function called, -1 before it returns
    sent,       \* the request messages sendmsg has accepted, in order
    inflight,   \* the request message the daemon has not yet received
    dpc,        \* position of the daemon
    dcur,       \* the request the daemon is serving
    dheld,      \* open files the daemon holds (or that are in flight to it)
    sock,       \* per request: response bytes in the socket, not yet received
    bulk,       \* per request: units in the bulk pipe
    errp,       \* per request: units in the error pipe
    rps,        \* the client variables filled by recvmsg
    got,        \* units the client's fread has taken from the bulk pipe
    rhdrs,      \* skt_to_txt: the ray headers read by the first request
    out,        \* header or data lines the client has printed
    sink,       \* units the daemon has written to the client's standard output
    errOut,     \* units of the error channel copied to standard error
    envTZ,      \* value of the TZ environment variable, NoTZ when not set
    log,        \* events of the client, in order: <<request, event>>
    calls,      \* the setter calls made on rqst since SigmetRaw_Rqst_Init: <<name, argument>>
    lines,      \* the lines printed on standard output, each a sequence of fields
                \* (for binary output: the arrays written with fwrite)
    dat,        \* skt_to_txt: the data values printed so far (offset of the pointer dat)
    stderr,     \* the messages main has written to standard error
    src_bytes,  \* copy_bits_packed_right: the bytes at src
    dest_bytes, \* copy_bits_packed_right: the bytes at dest
    dest0,      \* copy_bits_packed_right: the bytes at dest when it was called
    cb_o,       \* copy_bits_packed_right: o, the bit offset in src
    cb_n,       \* copy_bits_packed_right: n, the number of bits to copy
    cb_i,       \* copy_bits_packed_right: i, the loop counter
    dc_toks,    \* decoder: the tokens the file was written from
    dc_file,    \* decoder: the 16-bit words of the file, record after record
    dc_rd,      \* decoder: words of the file read so far
    dc_buf,     \* decoder: the sample buffer, one 16-bit word per place
    dc_cur,     \* decoder: the output cursor, an offset in the sample buffer
    dc_ray,     \* decoder: index of the ray being decompressed
    dc_lit,     \* decoder: words of the literal token still to copy
    dc_len,     \* decoder: decompressed size of the rays emitted, in order
    dc_err,     \* decoder: the failure it returned, <<>> when none
    dc_trunc    \* decoder: the rays in which a run was cut to the room left

vars == <<arg, vol, pc, req, todo, nsets, rqst, cfd, loc, exitCode, ret, sent, inflight,
          dpc, dcur, dheld, sock, bulk, errp, rps, got, rhdrs, out, sink, errOut, envTZ, log,
          calls, lines, dat, stderr, src_bytes, dest_bytes, dest0, cb_o, cb_n, cb_i,
          dc_toks, dc_file, dc_rd, dc_buf, dc_cur, dc_ray, dc_lit, dc_len, dc_err, dc_trunc>>

outVars == <<lines, dat, stderr>>
decVars == <<dc_toks, dc_file, dc_rd, dc_buf, dc_cur, dc_ray, dc_lit, dc_len, dc_err, dc_trunc>>
bitVars == <<src_bytes, dest_bytes, dest0, cb_o, cb_n, cb_i, decVars>>

clientVars == <<pc, req, todo, nsets, rqst, cfd, loc, exitCode, ret, sent,
                rps, got, rhdrs, out, errOut, envTZ, log, calls>>
daemonVars == <<dpc, dcur>>
chanVars == <<inflight, dheld, sock, bulk, errp, sink>>

Reqs == 1..2
NoTZ == <<0>>
NoMsg == [req |-> 0, iov |-> <<>>, anc |-> <<>>]

(***************************************************************************)
(* Open files and the client's descriptor table.                           *)
(***************************************************************************)
File(kind, end, k) == [kind |-> kind, end |-> end, req |-> k]
Closed == File("closed", "-", 0)
DevNull == File("null", "r", 0)           \* /dev/null opened O_RDONLY
StdFile(fd) == File("std", IF fd = 0 THEN "r" ELSE "w", 0)
Fds == 0..MaxFd

IsOpen(tab, fd) == fd \in Fds /\ tab[fd] # Closed
\* open, socket and pipe return the lowest free descriptor; -1 when the table is full
RECURSIVE LowestFrom(_, _)
LowestFrom(tab, fd) ==
    IF fd > MaxFd THEN -1 ELSE IF tab[fd] = Closed THEN fd ELSE LowestFrom(tab, fd + 1)
LowestFree(tab) == LowestFrom(tab, 0)
Install(tab, fd, file) == [tab EXCEPT ![fd] = file]
\* close(fd): closing -1 or a descriptor that is not open changes nothing
Close(tab, fd) == IF fd \in Fds THEN [tab EXCEPT ![fd] = Closed] ELSE tab
CloseAll(tab) == [fd \in Fds |-> Closed]
StdTable == [fd \in Fds |-> IF fd <= 2 THEN StdFile(fd) ELSE Closed]

NoLoc == [skt |-> -1, bulk_r |-> -1, bulk_w |-> -1, err_r |-> -1, err_w |-> -1]

\* some descriptor of the client refers to the open file
ClientHolds(file) == \E fd \in Fds : cfd[fd] = file
HasWriter(kind, k) == ClientHolds(File(kind, "w", k)) \/ File(kind, "w", k) \in dheld
HasReader(kind, k) == ClientHolds(File(kind, "r", k))

(***************************************************************************)
(* struct SigmetRaw_Rqst and its setters (sigmet_raw_client.c).            *)
(***************************************************************************)
SigmetRaw_Rqst_Init ==
    [sub_cmd_n |-> -1, abbrv |-> Zeros(SIGMET_DATA_TYPE_LEN), s |-> -1,
     hd_fd |-> -1, err_fd |-> -1]

\* snprintf(dst, size, "%s", a): at most size - 1 characters, then a NUL;
\* the bytes after the NUL keep their value
Snprintf(dst, size, a) ==
    LET k == Min(Len(a), size - 1)
    IN  [i \in 1..Len(dst) |-> IF i <= k THEN a[i] ELSE IF i = k + 1 THEN 0 ELSE dst[i]]

\* what a setter call does to the struct
ApplySet(r, name, x) ==
    CASE name = "SubCmd"   -> [r EXCEPT !.sub_cmd_n = x]
      [] name = "DataType" -> [r EXCEPT !.abbrv = Snprintf(r.abbrv, SIGMET_DATA_TYPE_LEN, x)]
      [] name = "Swp"      -> [r EXCEPT !.s = ToInt(x)]
      [] name = "ShFD"     -> [r EXCEPT !.hd_fd = x]
      [] name = "ErrFD"    -> [r EXCEPT !.err_fd = x]

(***************************************************************************)
(* SigmetRaw_Rqst_Send (sigmet_raw_client.c): the message it builds.       *)
(***************************************************************************)
\* the regular data: msg_iov, one byte sequence per item
RqstIov(r) == <<LE4(r.sub_cmd_n), r.abbrv, LE4(r.s)>>

\* a placeholder is wanted when a descriptor is not set
NeedPlaceholder(r) == r.err_fd < 0 \/ r.hd_fd < 0

\* mutants of RqstFds: the two slots exchanged; unset slots left at 0
RqstFdsSwapped(r, fd0) ==
    <<IF r.hd_fd >= 0 THEN r.hd_fd ELSE fd0, IF r.err_fd >= 0 THEN r.err_fd ELSE fd0>>
RqstFdsUnsetZero(r, fd0) ==
    <<IF r.err_fd >= 0 THEN r.err_fd ELSE 0, IF r.hd_fd >= 0 THEN r.hd_fd ELSE 0>>

\* int fd[2]: element SigmetRawErrFD + 1 and element SigmetRawHdrDataFD + 1 of the tuple
RqstFds(r, fd0) ==
    <<IF r.err_fd >= 0 THEN r.err_fd ELSE fd0, IF r.hd_fd >= 0 THEN r.hd_fd ELSE fd0>>

\* the control message: one cmsghdr of SCM_RIGHTS; files are the open files
\* the kernel attaches for the descriptors
RqstAnc(tab, fds) ==
    <<[level |-> "SOL_SOCKET", type |-> "SCM_RIGHTS", fds |-> fds,
       files |-> [i \in DOMAIN fds |-> tab[fds[i]]]]>>

RqstMsg(k, r, tab, fd0) ==
    [req |-> k, iov |-> RqstIov(r), anc |-> RqstAnc(tab, RqstFds(r, fd0))]

\* mutant of RqstSendResult: the descriptors passed are closed after sendmsg
RqstSendResultClosesFds(k, r, tab, openOK, sendOK) ==
    LET need == NeedPlaceholder(r)
        fd0 == IF need /\ openOK THEN LowestFree(tab) ELSE -1
        tab1 == IF fd0 >= 0 THEN Install(tab, fd0, DevNull) ELSE tab
        fds == RqstFds(r, fd0)
        valid == \A i \in DOMAIN fds : IsOpen(tab1, fds[i])
    IN  IF need /\ fd0 = -1 THEN [tab |-> tab, msg |-> NoMsg, ret |-> 0, fd0 |-> fd0]
        ELSE IF sendOK /\ valid
             THEN [tab |-> Close(Close(tab1, fds[1]), fds[2]),
                   msg |-> RqstMsg(k, r, tab1, fd0), ret |-> 1, fd0 |-> fd0]
             ELSE [tab |-> tab1, msg |-> NoMsg, ret |-> 0, fd0 |-> fd0]

\* outcome of SigmetRaw_Rqst_Send: the descriptor table after it, the message
\* sent (NoMsg when none) and the return value
RqstSendResult(k, r, tab, openOK, sendOK) ==
    LET need == NeedPlaceholder(r)
        fd0 == IF need /\ openOK THEN LowestFree(tab) ELSE -1
        tab1 == IF fd0 >= 0 THEN Install(tab, fd0, DevNull) ELSE tab
        fds == RqstFds(r, fd0)
        \* sendmsg fails with EBADF when a descriptor to pass is not open
        valid == \A i \in DOMAIN fds : IsOpen(tab1, fds[i])
    IN  IF need /\ fd0 = -1 THEN [tab |-> tab, msg |-> NoMsg, ret |-> 0, fd0 |-> fd0]
        ELSE IF sendOK /\ valid
             THEN [tab |-> Close(tab1, fd0), msg |-> RqstMsg(k, r, tab1, fd0), ret |-> 1,
                   fd0 |-> fd0]
             ELSE [tab |-> tab1, msg |-> NoMsg, ret |-> 0, fd0 |-> fd0]

\* the open files a message carries, which stay open while it is in flight
MsgFiles(m) == IF m = NoMsg THEN {} ELSE Range(m.anc[1].files)

(***************************************************************************)
(* The client paths.  "lib" is a caller of the library that builds a       *)
(* request with the setters as it likes and sends it; the others are the   *)
(* functions of data.c, ray_headers.c and sigmet_raw_client.c.             *)
(***************************************************************************)
Cmds == {"skt_to_txt", "skt_to_bin", "ray_hdrs_fm_skt", "Dmn_VolHdr"}
Executables == {"skt_to_txt", "skt_to_bin", "ray_hdrs_fm_skt"}
IsLib == arg.cmd = "lib"

\* the sweep argument as it reaches the unsigned parameter of Set_Swp: data.c
\* converts its int s, ray_headers.c passes its unsigned i_swp ("all" is UINT_MAX)
SwpArgs(cmd) ==
    CASE cmd \in {"skt_to_txt", "skt_to_bin"} -> {ToUnsigned(0), ToUnsigned(-1)}
      [] cmd = "ray_hdrs_fm_skt" -> {UOfNat(0), UOfNat(MaxSwps - 1), UINT_MAX}
      [] OTHER -> {UOfNat(0)}
\* the abbreviation of the type argument; <<>> when ray_headers has none
AbbrvArgs(cmd) ==
    CASE cmd \in {"skt_to_txt", "skt_to_bin"} -> {DB_DBZ}
      [] cmd = "ray_hdrs_fm_skt" -> {<<>>, DB_DBZ}
      [] OTHER -> {<<>>}
Args == UNION {[cmd : {c}, s : SwpArgs(c), abbrv : AbbrvArgs(c)] : c \in Cmds}

\* the setter calls each path makes between SigmetRaw_Rqst_Init and SigmetRaw_Rqst_Send
Calls(cmd, k, a, l) ==
    CASE cmd = "skt_to_txt" /\ k = 1 ->
            <<<<"SubCmd", SigmetRawRayHeaders>>, <<"Swp", a.s>>,
              <<"DataType", a.abbrv>>, <<"ShFD", l.bulk_w>>, <<"ErrFD", l.err_w>>>>
      [] cmd = "skt_to_txt" /\ k = 2 ->
            <<<<"SubCmd", SigmetRawData>>, <<"DataType", a.abbrv>>,
              <<"Swp", a.s>>, <<"ShFD", l.bulk_w>>, <<"ErrFD", l.err_w>>>>
      [] cmd = "skt_to_bin" ->
            <<<<"SubCmd", SigmetRawData>>, <<"DataType", a.abbrv>>,
              <<"Swp", a.s>>, <<"ShFD", STDOUT_FILENO>>, <<"ErrFD", l.err_w>>>>
      [] cmd = "ray_hdrs_fm_skt" ->
            <<<<"SubCmd", SigmetRawRayHeaders>>, <<"Swp", a.s>>,
              <<"DataType", a.abbrv>>, <<"ShFD", l.bulk_w>>, <<"ErrFD", l.err_w>>>>
      [] cmd = "Dmn_VolHdr" ->
            <<<<"SubCmd", SigmetRawVolumeHeaders>>, <<"ShFD", l.bulk_w>>>>
      [] OTHER -> <<>>

\* what a library caller may pass to each setter
LibInputs(name) ==
    CASE name = "SubCmd"   -> SigmetRawExit..SigmetRawCorx
      [] name = "DataType" -> {Abbrv(n) : n \in 0..MaxAbbrvLen}
      [] name = "Swp"      -> {UOfNat(0), UOfNat(1), <<32768, 0>>, UINT_MAX}
      [] name = "ShFD"     -> {-1, STDOUT_FILENO, loc.bulk_w}
      [] name = "ErrFD"    -> {-1, loc.err_w}

\* the arguments with which the setter can be called in the current state
SetArgs(name) ==
    IF pc # "build" THEN {}
    ELSE IF IsLib THEN (IF nsets < MaxSets THEN LibInputs(name) ELSE {})
    ELSE IF todo # <<>> /\ Head(todo)[1] = name THEN {Head(todo)[2]}
    ELSE {}

DoSet(name, x) ==
    /\ rqst' = ApplySet(rqst, name, x)
    /\ calls' = Append(calls, <<name, x>>)
    /\ todo' = IF IsLib THEN todo ELSE Tail(todo)
    /\ nsets' = IF IsLib THEN nsets + 1 ELSE nsets
    /\ UNCHANGED <<arg, vol, outVars, bitVars,
                   pc, req, cfd, loc, exitCode, ret, sent, rps, got, rhdrs, out,
                   errOut, envTZ, log, daemonVars, chanVars>>

SigmetRaw_Rqst_Set_SubCmd == \E x \in SetArgs("SubCmd") : DoSet("SubCmd", x)
SigmetRaw_Rqst_Set_DataType == \E x \in SetArgs("DataType") : DoSet("DataType", x)
SigmetRaw_Rqst_Set_Swp == \E x \in SetArgs("Swp") : DoSet("Swp", x)
SigmetRaw_Rqst_Set_ShFD == \E x \in SetArgs("ShFD") : DoSet("ShFD", x)
SigmetRaw_Rqst_Set_ErrFD == \E x \in SetArgs("ErrFD") : DoSet("ErrFD", x)

\* the process exits: every descriptor of the client is closed
Exit(code) ==
    /\ pc' = "exited"
    /\ exitCode' = code
    /\ cfd' = CloseAll(cfd)

\* a library function returns to its caller
Return(r, tab) ==
    /\ pc' = "returned"
    /\ ret' = r
    /\ cfd' = tab

\* SigmetRaw_Rqst_Send, and what its caller does with the return value
SigmetRaw_Rqst_Send ==
    /\ pc = "build"
    /\ IsLib \/ todo = <<>>
    /\ \E openOK \in BOOLEAN, sendOK \in BOOLEAN :
         \E res \in {RqstSendResult(req, rqst, cfd, openOK, sendOK)} :
             /\ IF res.msg # NoMsg
                THEN /\ sent' = Append(sent, res.msg)
                     /\ inflight' = res.msg
                     /\ dheld' = dheld \cup MsgFiles(res.msg)
                     /\ log' = Append(log, <<req, "sendmsg">>)
                ELSE /\ UNCHANGED <<sent, inflight, dheld>>
                     /\ log' = IF NeedPlaceholder(rqst) /\ res.fd0 = -1
                               THEN Append(log, <<req, "open_failed">>)
                               ELSE log
             /\ IF IsLib
                THEN Return(res.ret, res.tab) /\ UNCHANGED exitCode
                ELSE IF res.ret = 1
                THEN /\ pc' = IF arg.cmd = "Dmn_VolHdr" THEN "read" ELSE "recv"
                     /\ cfd' = res.tab
                     /\ UNCHANGED <<exitCode, ret>>
                ELSE IF arg.cmd = "Dmn_VolHdr"
                THEN \* fclose(vol_hdr_fl); return 0
                     Return(0, Close(res.tab, loc.bulk_r)) /\ UNCHANGED exitCode
                ELSE Exit(EXIT_FAILURE) /\ UNCHANGED ret
    /\ UNCHANGED <<arg, vol, outVars, bitVars,
                   req, todo, nsets, rqst, loc, rps, got, rhdrs, out, errOut,
                   envTZ, calls, daemonVars, sock, bulk, errp, sink>>

(***************************************************************************)
(* socket(), pipe(): descriptors are handed out lowest first.              *)
(***************************************************************************)
AllocSkt(tab, k) ==
    LET fd == LowestFree(tab)
    IN  [ok |-> fd >= 0, fd |-> fd,
         tab |-> IF fd >= 0 THEN Install(tab, fd, File("skt", "rw", k)) ELSE tab]

AllocPipe(tab, kind, k) ==
    LET r == LowestFree(tab)
        t1 == IF r >= 0 THEN Install(tab, r, File(kind, "r", k)) ELSE tab
        w == LowestFree(t1)
        ok == r >= 0 /\ w >= 0
    IN  [ok |-> ok, r |-> r, w |-> w,
         tab |-> IF ok THEN Install(t1, w, File(kind, "w", k)) ELSE tab]

(***************************************************************************)
(* Initial states.                                                         *)
(***************************************************************************)
\* a volume of the daemon: every ray has data and the bin count of the volume
DmnVolume(ns, nr, nb, rays) ==
    [num_swps |-> ns, num_rays |-> nr, num_bins |-> nb, tz |-> TZ_UTC, rays |-> rays]
Volumes ==
    {DmnVolume(ns, nr, nb, [r \in 1..nr |-> [num_bins |-> nb, present |-> TRUE]]) :
        ns \in 1..MaxSwps, nr \in 1..MaxRays, nb \in 0..MaxBins}

NoRps == [Status |-> <<>>, NumSwps |-> <<>>, NumRays |-> <<>>, SwpTm |-> <<>>, TZ |-> <<>>]
NoCur == [req |-> 0, sub |-> -1, status |-> SigmetRawError, art |-> <<>>, errtxt |-> 0,
          files |-> <<>>, vals |-> <<>>]

\* no file is being decoded
NoDec ==
    /\ dc_toks = <<>> /\ dc_file = <<>> /\ dc_rd = 0 /\ dc_buf = <<>> /\ dc_cur = 0
    /\ dc_ray = 0 /\ dc_lit = 0 /\ dc_len = <<>> /\ dc_err = <<>> /\ dc_trunc = {}
\* no call of copy_bits_packed_right
NoCopy == src_bytes = <<>> /\ dest_bytes = <<>> /\ dest0 = <<>> /\ cb_o = 0 /\ cb_n = 0 /\ cb_i = 0
\* neither of them
NoBits == NoCopy /\ NoDec

InitRest ==
    /\ req = 1 /\ todo = <<>> /\ nsets = 0
    /\ rqst = SigmetRaw_Rqst_Init
    /\ exitCode = -1 /\ ret = -1
    /\ sent = <<>> /\ inflight = NoMsg
    /\ dpc = "idle" /\ dcur = NoCur /\ dheld = {}
    /\ sock = [k \in Reqs |-> <<>>]
    /\ bulk = [k \in Reqs |-> <<>>]
    /\ errp = [k \in Reqs |-> 0]
    /\ rps = NoRps /\ got = <<>> /\ rhdrs = <<>>
    /\ out = 0 /\ sink = 0 /\ errOut = 0 /\ envTZ = NoTZ
    /\ log = <<>> /\ calls = <<>>
    /\ lines = <<>> /\ dat = 0 /\ stderr = <<>>

\* a client subcommand starts, with the standard descriptors open
Init ==
    /\ arg \in Args
    /\ vol \in Volumes
    /\ pc = "start"
    /\ cfd = StdTable
    /\ loc = NoLoc
    /\ InitRest /\ NoBits

\* a library caller that holds a connected socket, a bulk pipe and an error pipe
\* and has just called SigmetRaw_Rqst_Init
LibSkt == AllocSkt(StdTable, 1)
LibBulk == AllocPipe(LibSkt.tab, "bulk", 1)
LibErr == AllocPipe(LibBulk.tab, "err", 1)
InitRqst ==
    /\ arg = [cmd |-> "lib", s |-> UOfNat(0), abbrv |-> <<>>]
    /\ vol \in {v \in Volumes : v.num_swps = 1 /\ v.num_rays = 1 /\ v.num_bins = 0}
    /\ pc = "build"
    /\ cfd = LibErr.tab
    /\ loc = [skt |-> LibSkt.fd, bulk_r |-> LibBulk.r, bulk_w |-> LibBulk.w,
              err_r |-> LibErr.r, err_w |-> LibErr.w]
    /\ InitRest /\ NoBits

NextRqst ==
    \/ SigmetRaw_Rqst_Set_SubCmd
    \/ SigmetRaw_Rqst_Set_DataType
    \/ SigmetRaw_Rqst_Set_Swp
    \/ SigmetRaw_Rqst_Set_ShFD
    \/ SigmetRaw_Rqst_Set_ErrFD
    \/ SigmetRaw_Rqst_Send

SpecRqst == InitRqst /\ [][NextRqst]_vars

(***************************************************************************)
(* SigmetRaw_DmnConnect called on its own (sigmet_raw_client.c), with a     *)
(* path of any length and any number of descriptors already open.          *)
(***************************************************************************)
\* snprintf(sa_un.sun_path, plen, "%s", skt_path) has not truncated the path
PathFits(path_len) == path_len < SunPathLen

\* mutant of DmnConnectResult: the socket is not closed when connect fails
DmnConnectResultNoClose(tab, k, sktOK, path_len, connOK) ==
    LET a == AllocSkt(tab, k)
    IN  IF ~(sktOK /\ a.ok) THEN [ret |-> -1, tab |-> tab, calls |-> <<"socket">>]
        ELSE IF ~PathFits(path_len)
        THEN [ret |-> -1, tab |-> Close(a.tab, a.fd), calls |-> <<"socket", "close">>]
        ELSE IF ~connOK
        THEN [ret |-> -1, tab |-> a.tab, calls |-> <<"socket", "connect">>]
        ELSE [ret |-> a.fd, tab |-> a.tab, calls |-> <<"socket", "connect">>]

\* outcome of SigmetRaw_DmnConnect: the return value, the descriptor table
\* after it and the system calls made
DmnConnectResult(tab, k, sktOK, path_len, connOK) ==
    LET a == AllocSkt(tab, k)
    IN  IF ~(sktOK /\ a.ok) THEN [ret |-> -1, tab |-> tab, calls |-> <<"socket">>]
        ELSE IF ~PathFits(path_len)
        THEN [ret |-> -1, tab |-> Close(a.tab, a.fd), calls |-> <<"socket", "close">>]
        ELSE IF ~connOK
        THEN [ret |-> -1, tab |-> Close(a.tab, a.fd),
              calls |-> <<"socket", "connect", "close">>]
        ELSE [ret |-> a.fd, tab |-> a.tab, calls |-> <<"socket", "connect">>]

\* the call and its return; the log takes the system calls made
DmnConnectCall ==
    /\ pc = "conn_call"
    /\ \E sktOK \in BOOLEAN, connOK \in BOOLEAN :
         \E res \in {DmnConnectResult(cfd, 1, sktOK, arg.path_len, connOK)} :
             /\ Return(res.ret, res.tab)
             /\ log' = log \o [i \in DOMAIN res.calls |-> <<1, res.calls[i]>>]
    /\ UNCHANGED <<arg, vol, outVars, bitVars,
                   req, todo, nsets, rqst, loc, exitCode, sent, rps, got, rhdrs, out, errOut,
                   envTZ, calls, daemonVars, chanVars>>

\* the caller's table: the standard descriptors and n more that are open
PreOpen(n) ==
    [fd \in Fds |-> IF fd <= 2 THEN StdFile(fd) ELSE IF fd < 3 + n THEN DevNull ELSE Closed]

InitConn ==
    /\ arg \in [cmd : {"DmnConnect"}, path_len : 0..(SunPathLen + 1)]
    /\ vol \in {v \in Volumes : v.num_swps = 1 /\ v.num_rays = 1 /\ v.num_bins = 0}
    /\ pc = "conn_call"
    /\ cfd \in {PreOpen(n) : n \in 0..(MaxFd - 2)}
    /\ loc = NoLoc
    /\ InitRest /\ NoBits

SpecConn == InitConn /\ [][DmnConnectCall]_vars

(***************************************************************************)
(* The response on the socket.  A byte in the socket is <<slot, index,     *)
(* value>>: the value, and the place in the daemon's msg_iov it comes      *)
(* from.                                                                   *)
(***************************************************************************)
Tag(slot, bytes) == [i \in 1..Len(bytes) |-> <<slot, i, bytes[i]>>]
Vals(tagged) == [i \in 1..Len(tagged) |-> tagged[i][3]]

\* the msg_iov each client hands to recvmsg: <<variable, iov_len>> in order,
\* each variable under the name of the response slot it is meant for
RecvLayout(cmd, k) ==
    CASE cmd = "skt_to_txt" /\ k = 1 ->
            <<<<"Status", SizeofInt>>, <<"NumSwps", SizeofInt>>, <<"NumRays", SizeofInt>>,
              <<"SwpTm", SizeofDouble>>, <<"TZ", SIGMET_TZ_STRLEN>>>>
      [] cmd = "ray_hdrs_fm_skt" ->
            <<<<"Status", SizeofInt>>, <<"NumSwps", SizeofInt>>, <<"NumRays", SizeofInt>>,
              <<"TZ", SIGMET_TZ_STRLEN>>>>
      [] OTHER -> <<<<"Status", SizeofInt>>>>

\* bytes of the stream before item i of a layout
RECURSIVE Offset(_, _)
Offset(layout, i) == IF i <= 1 THEN 0 ELSE Offset(layout, i - 1) + layout[i - 1][2]

\* recvmsg on a stream socket: the bytes fill the items of msg_iov in order
Scatter(stream, layout) ==
    [v \in DOMAIN NoRps |->
        IF \E i \in DOMAIN layout : layout[i][1] = v
        THEN LET i == CHOOSE j \in DOMAIN layout : layout[j][1] = v
             IN  SubSeq(stream, Offset(layout, i) + 1,
                        Min(Offset(layout, i) + layout[i][2], Len(stream)))
        ELSE <<>>]

\* the variables of the client after recvmsg; status keeps SigmetRawError and
\* the counts keep 0 when no byte arrived for them
RpsInt(v) == IF Len(rps[v]) = SizeofInt THEN I32(Vals(rps[v])) ELSE 0
RpsStatus == IF Len(rps.Status) = SizeofInt THEN I32(Vals(rps.Status)) ELSE SigmetRawError

\* mutant of Need: skt_to_txt asks for one ray header less
NeedOneLess ==
    CASE arg.cmd = "Dmn_VolHdr" -> VolHdrSz
      [] arg.cmd = "ray_hdrs_fm_skt" -> RpsInt("NumSwps") * RpsInt("NumRays")
      [] arg.cmd = "skt_to_txt" /\ req = 1 -> RpsInt("NumRays") - 1
      [] arg.cmd = "skt_to_txt" /\ req = 2 -> SumSeq(rhdrs)
      [] OTHER -> 0

\* items the client's fread asks for
Need ==
    CASE arg.cmd = "Dmn_VolHdr" -> VolHdrSz
      [] arg.cmd = "ray_hdrs_fm_skt" -> RpsInt("NumSwps") * RpsInt("NumRays")
      [] arg.cmd = "skt_to_txt" /\ req = 1 -> RpsInt("NumRays")
      [] arg.cmd = "skt_to_txt" /\ req = 2 -> SumSeq(rhdrs)
      [] OTHER -> 0

(***************************************************************************)
(* The client subcommands, step by step.                                   *)
(***************************************************************************)
\* SigmetRaw_DmnConnect and the exit of its caller when it fails
SigmetRaw_DmnConnect ==
    /\ pc = "start"
    /\ \E ok \in BOOLEAN :
         \E a \in {AllocSkt(cfd, req)} :
             IF ok /\ a.ok
             THEN /\ cfd' = a.tab
                  /\ loc' = [NoLoc EXCEPT !.skt = a.fd]
                  /\ pc' = "pipes"
                  /\ log' = Append(log, <<req, "connect">>)
                  /\ UNCHANGED exitCode
             ELSE Exit(EXIT_FAILURE) /\ UNCHANGED <<loc, log>>
    /\ UNCHANGED <<arg, vol, outVars, bitVars,
                   req, todo, nsets, rqst, ret, sent, rps, got, rhdrs, out, errOut,
                   envTZ, calls, daemonVars, chanVars>>

\* the bulk pipe of a request: skt_to_bin makes none, it shares standard output
BulkPipe(tab, cmd, k) ==
    IF cmd = "skt_to_bin" THEN [ok |-> TRUE, r |-> -1, w |-> -1, tab |-> tab]
    ELSE AllocPipe(tab, "bulk", k)

\* the error pipe of a request: SigmetRaw_Dmn_VolHdr makes none, it leaves
\* err_fd unset
ErrPipe(tab, cmd, k) ==
    IF cmd = "Dmn_VolHdr" THEN [ok |-> TRUE, r |-> -1, w |-> -1, tab |-> tab]
    ELSE AllocPipe(tab, "err", k)

\* pipe(), fdopen(), pipe(), then SigmetRaw_Rqst_Init
MakePipes ==
    /\ pc = "pipes"
    /\ \E outcome \in {"ok", "pipe_failed", "fdopen_failed"} :
       \E b \in {BulkPipe(cfd, arg.cmd, req)} :
       \E e \in {ErrPipe(b.tab, arg.cmd, req)} :
       \E l \in {[loc EXCEPT !.bulk_r = b.r, !.bulk_w = b.w, !.err_r = e.r, !.err_w = e.w]} :
             IF outcome = "ok" /\ b.ok /\ e.ok
             THEN /\ cfd' = e.tab
                  /\ loc' = l
                  /\ rqst' = SigmetRaw_Rqst_Init
                  /\ calls' = <<>>
                  /\ todo' = Calls(arg.cmd, req, arg, l)
                  /\ pc' = "build"
                  /\ UNCHANGED <<exitCode, ret>>
             ELSE IF arg.cmd = "Dmn_VolHdr"
             THEN \* return 0; when fdopen failed the pipe stays open
                  /\ Return(0, IF outcome = "fdopen_failed" /\ b.ok THEN b.tab ELSE cfd)
                  /\ UNCHANGED <<loc, rqst, calls, todo, exitCode>>
             ELSE Exit(EXIT_FAILURE) /\ UNCHANGED <<loc, rqst, calls, todo, ret>>
    /\ UNCHANGED <<arg, vol, outVars, bitVars,
                   req, nsets, sent, rps, got, rhdrs, out, errOut, envTZ, log,
                   daemonVars, chanVars>>

\* mutant of CloseAfterRecv: the write ends are left open
CloseAfterRecvNothing(tab, cmd, l) == tab

\* mutant of CloseAfterRecv: skt_to_txt keeps its socket open
CloseAfterRecvKeepSkt(tab, cmd, l) ==
    CASE cmd = "skt_to_txt" -> Close(Close(tab, l.bulk_w), l.err_w)
      [] cmd = "skt_to_bin" -> Close(tab, l.err_w)
      [] cmd = "ray_hdrs_fm_skt" -> Close(Close(tab, l.bulk_w), l.err_w)
      [] OTHER -> tab

\* the descriptors the client closes right after recvmsg
CloseAfterRecv(tab, cmd, l) ==
    CASE cmd = "skt_to_txt" -> Close(Close(Close(tab, l.bulk_w), l.err_w), l.skt)
      [] cmd = "skt_to_bin" -> Close(tab, l.err_w)
      [] cmd = "ray_hdrs_fm_skt" -> Close(Close(tab, l.bulk_w), l.err_w)
      [] OTHER -> tab

\* what the client does on a status that is not SigmetRawOkay, up to the copy
\* loop: ray_hdrs_fm_skt closes the read end of the bulk pipe
OnErrorStatus(tab, cmd, l) ==
    IF cmd = "ray_hdrs_fm_skt" THEN Close(tab, l.bulk_r) ELSE tab

\* what the client does on SigmetRawOkay before it reads the bulk pipe:
\* skt_to_txt closes the read end of the error pipe
OnOkayStatus(tab, cmd, l) ==
    IF cmd = "skt_to_txt" THEN Close(tab, l.err_r) ELSE tab

\* a count variable after recvmsg: its initial value unless the whole of it
\* was received
CountAfter(r, v, init) == IF Len(r[v]) = SizeofInt THEN I32(Vals(r[v])) ELSE init

\* mutant of BadCounts: a count of zero is accepted
BadCountsNegative(cmd, k, r) ==
    CASE cmd = "skt_to_txt" /\ k = 1 -> CountAfter(r, "NumRays", -1) < 0
      [] cmd = "ray_hdrs_fm_skt" ->
            CountAfter(r, "NumSwps", 0) < 0 \/ CountAfter(r, "NumRays", 0) < 0
      [] OTHER -> FALSE

\* the counts of the response the client refuses
BadCounts(cmd, k, r) ==
    CASE cmd = "skt_to_txt" /\ k = 1 -> CountAfter(r, "NumRays", -1) <= 0
      [] cmd = "ray_hdrs_fm_skt" ->
            CountAfter(r, "NumSwps", 0) = 0 \/ CountAfter(r, "NumRays", 0) = 0
      [] OTHER -> FALSE

\* the daemon has taken request k from the socket and is done with it: its
\* end of the connection is closed
PeerClosed(k) == Len(sent) >= k /\ inflight.req # k /\ dcur.req # k

\* mutant of StatusAfter: a status that was not received counts as Okay
StatusAfterOkay(r) ==
    IF Len(r.Status) = SizeofInt THEN I32(Vals(r.Status)) ELSE SigmetRawOkay

\* the status variable after recvmsg: its initial value SigmetRawError unless
\* the whole of it was received
StatusAfter(r) ==
    IF Len(r.Status) = SizeofInt THEN I32(Vals(r.Status)) ELSE SigmetRawError

\* recvmsg and the code up to the first read of a pipe; recvmsg returns the
\* bytes of the response, or 0 when the peer has closed the connection
RecvRps ==
    /\ pc = "recv"
    /\ \E ok \in BOOLEAN, libOK \in BOOLEAN :
         IF ok
         THEN /\ sock[req] # <<>> \/ PeerClosed(req)
              /\ \E r \in {Scatter(sock[req], RecvLayout(arg.cmd, req))},
                    tab1 \in {CloseAfterRecv(cfd, arg.cmd, loc)} :
                 \E st \in {StatusAfter(r)} :
                     /\ rps' = r
                     /\ sock' = [sock EXCEPT ![req] = <<>>]
                     /\ log' = IF st # SigmetRawOkay /\ ~libOK
                               THEN log \o <<<<req, "recvmsg">>, <<req, "fdopen_failed">>>>
                               ELSE Append(log, <<req, "recvmsg">>)
                     /\ IF st # SigmetRawOkay
                        THEN \* fdopen(err) fails: exit; else copy the error channel
                             IF libOK
                             THEN /\ pc' = "errcopy"
                                  /\ cfd' = OnErrorStatus(tab1, arg.cmd, loc)
                                  /\ UNCHANGED <<exitCode, envTZ>>
                             ELSE Exit(EXIT_FAILURE) /\ UNCHANGED envTZ
                        ELSE IF arg.cmd = "skt_to_bin"
                        THEN Exit(EXIT_SUCCESS) /\ UNCHANGED envTZ
                        ELSE IF BadCounts(arg.cmd, req, r) \/ ~libOK
                        THEN \* impossible count, or setenv or calloc fails
                             Exit(EXIT_FAILURE) /\ UNCHANGED envTZ
                        ELSE /\ pc' = "read"
                             /\ cfd' = OnOkayStatus(tab1, arg.cmd, loc)
                             /\ envTZ' = IF arg.cmd = "ray_hdrs_fm_skt"
                                         THEN CStr(Vals(r.TZ)) ELSE envTZ
                             /\ UNCHANGED exitCode
         ELSE \* recvmsg returns -1
              /\ libOK
              /\ Exit(EXIT_FAILURE)
              /\ UNCHANGED <<rps, sock, log, envTZ>>
    /\ UNCHANGED <<arg, vol, outVars, bitVars,
                   req, todo, nsets, rqst, loc, ret, sent, got, rhdrs, out, errOut,
                   calls, daemonVars, inflight, dheld, bulk, errp, sink>>

\* mutant of ErrCopyDone: the loop stops as soon as the pipe is empty
ErrCopyDoneWhenEmpty(n, writer) == n = 0

\* fgetc on the error channel returns EOF: nothing buffered and no writer left
ErrCopyDone(n, writer) == n = 0 /\ ~writer

\* the loop that copies the error channel to standard error: one fgetc and
\* fputc per step; at end of file the newline and exit(EXIT_FAILURE)
ErrCopy ==
    /\ pc = "errcopy"
    /\ IF errp[req] > 0
       THEN /\ errp' = [errp EXCEPT ![req] = @ - 1]
            /\ errOut' = errOut + 1
            /\ log' = IF log # <<>> /\ log[Len(log)] = <<req, "read_err">> THEN log
                      ELSE Append(log, <<req, "read_err">>)
            /\ UNCHANGED <<pc, exitCode, cfd>>
       ELSE /\ ErrCopyDone(errp[req], HasWriter("err", req))
            /\ Exit(EXIT_FAILURE)
            /\ log' = Append(log, <<req, "eof_err">>)
            /\ UNCHANGED <<errp, errOut>>
    /\ UNCHANGED <<arg, vol, outVars, bitVars,
                   req, todo, nsets, rqst, loc, ret, sent, rps, got, rhdrs, out,
                   envTZ, calls, daemonVars, inflight, dheld, sock, bulk, sink>>

\* fread on the bulk pipe: one unit per step; it returns when it has the
\* items asked for, or at end of file (pipe empty and no writer left)
FRead ==
    /\ pc = "read"
    /\ IF Len(got) < Need /\ bulk[req] # <<>>
       THEN /\ got' = Append(got, Head(bulk[req]))
            /\ bulk' = [bulk EXCEPT ![req] = Tail(@)]
            /\ log' = IF got = <<>> THEN Append(log, <<req, "read">>) ELSE log
            /\ UNCHANGED pc
       ELSE /\ Len(got) = Need \/ ~HasWriter("bulk", req)
            /\ pc' = "after_read"
            /\ UNCHANGED <<got, bulk, log>>
    /\ UNCHANGED <<arg, vol, outVars, bitVars,
                   req, todo, nsets, rqst, cfd, loc, exitCode, ret, sent, rps, rhdrs,
                   out, errOut, envTZ, calls, daemonVars, inflight, dheld, sock, errp, sink>>

\* ray_hdrs_fm_skt: exit code after fread returned num_rd of the need records
RayHdrsExitCode(num_rd, need) == IF num_rd = 0 THEN EXIT_FAILURE ELSE EXIT_SUCCESS

\* lines the print loop of ray_hdrs_fm_skt writes for num_rd records read
RayHdrsLines(num_rd, num_swps, num_rays) == Min(num_rd, num_swps * num_rays)

\* the lines the print loop of ray_hdrs_fm_skt writes: the loop counters s
\* and r and the bin count of the n-th record read
SktRayHdrLines(hdrs, num_swps, num_rays) ==
    [k \in 1..RayHdrsLines(Len(hdrs), num_swps, num_rays) |->
        <<(k - 1) \div num_rays, (k - 1) % num_rays, hdrs[k]>>]

\* skt_to_txt: the largest bin count in the ray headers received
RECURSIVE NumBinsMax(_)
NumBinsMax(hdrs) ==
    IF hdrs = <<>> THEN 0
    ELSE IF Head(hdrs) > NumBinsMax(Tail(hdrs)) THEN Head(hdrs) ELSE NumBinsMax(Tail(hdrs))

\* mutant of DatAfter: the pointer is not moved
DatStays(p, num_bins) == p

\* the pointer dat after the values of a ray have been printed with *dat++
DatAfter(p, num_bins) == p + num_bins

\* skt_to_txt: the lines of the rays with the headers hdrs, printed from the
\* values vals with dat at offset p: num_bins values, then NaN up to num_bins_max
RECURSIVE SktTxtLines(_, _, _, _)
SktTxtLines(hdrs, vals, p, num_bins_max) ==
    IF hdrs = <<>> THEN <<>>
    ELSE <<[b \in 1..num_bins_max |-> IF b <= Head(hdrs) THEN vals[p + b] ELSE NaN]>>
         \o SktTxtLines(Tail(hdrs), vals, DatAfter(p, Head(hdrs)), num_bins_max)

\* the code after fread has returned
AfterRead ==
    /\ pc = "after_read"
    /\ \E callocOK \in BOOLEAN :
        CASE arg.cmd = "Dmn_VolHdr" ->
                /\ callocOK
                /\ IF Len(got) # VolHdrSz
                   THEN \* fclose(vol_hdr_fl); return 0
                        Return(0, Close(cfd, loc.bulk_r))
                   ELSE \* fclose(vol_hdr_fl); close(p[1]); return 1
                        Return(1, Close(Close(cfd, loc.bulk_r), loc.bulk_w))
                /\ UNCHANGED <<req, exitCode, got, rhdrs, out>>
          [] arg.cmd = "ray_hdrs_fm_skt" ->
                /\ callocOK
                /\ Exit(RayHdrsExitCode(Len(got), Need))
                /\ out' = IF Len(got) = 0 THEN out
                          ELSE out + RayHdrsLines(Len(got), RpsInt("NumSwps"), RpsInt("NumRays"))
                /\ UNCHANGED <<req, ret, got, rhdrs>>
          [] arg.cmd = "skt_to_txt" /\ req = 1 ->
                IF Len(got) # Need \/ (~callocOK /\ SumSeq(got) = 0)
                THEN \* short read, or calloc(0, ...) returned NULL
                     /\ Len(got) # Need => callocOK
                     /\ Exit(EXIT_FAILURE)
                     /\ UNCHANGED <<req, ret, got, rhdrs, out>>
                ELSE \* fclose(rh_fl); on to the request for the data
                     /\ callocOK
                     /\ rhdrs' = got
                     /\ got' = <<>>
                     /\ req' = 2
                     /\ pc' = "start"
                     /\ cfd' = Close(cfd, loc.bulk_r)
                     /\ UNCHANGED <<exitCode, ret, out>>
          [] OTHER ->
                /\ callocOK
                /\ arg.cmd = "skt_to_txt" /\ req = 2
                /\ Exit(IF Len(got) # Need THEN EXIT_FAILURE ELSE EXIT_SUCCESS)
                /\ out' = IF Len(got) # Need THEN out ELSE out + Len(rhdrs)
                /\ UNCHANGED <<req, ret, got, rhdrs>>
    /\ IF arg.cmd = "skt_to_txt" /\ req = 2 /\ Len(got) = Need
       THEN \* the loop that writes the data
            /\ lines' = SktTxtLines(rhdrs, got, 0, NumBinsMax(rhdrs))
            /\ dat' = SumSeq(rhdrs)
       ELSE IF arg.cmd = "ray_hdrs_fm_skt" /\ Len(got) # 0
       THEN \* the loop that writes the ray headers
            /\ lines' = SktRayHdrLines(got, RpsInt("NumSwps"), RpsInt("NumRays"))
            /\ UNCHANGED dat
       ELSE UNCHANGED <<lines, dat>>
    /\ UNCHANGED <<arg, vol, stderr, bitVars,
                   todo, nsets, rqst, loc, sent, rps, errOut, envTZ, log, calls,
                   daemonVars, chanVars>>

(***************************************************************************)
(* The daemon, from the specification: accept and recvmsg, validate, reply *)
(* with the seven slots, then write the artifact to the bulk descriptor or *)
(* the error text to the error descriptor, then close both descriptors and *)
(* the accepted socket.                                                    *)
(***************************************************************************)
Registered == {DB_DBZ, DB_TEMPERATURE16}

AllSwps(sw) == sw = UINT_MAX
SwpInRange(sw) == sw[1] = 0 /\ sw[2] < vol.num_swps

RqstValid(sub, ab, sw) ==
    /\ sub \in SigmetRawExit..SigmetRawCorx
    /\ ab = <<>> \/ ab \in Registered
    /\ CASE sub = SigmetRawRayHeaders -> AllSwps(sw) \/ SwpInRange(sw)
         [] sub \in {SigmetRawData, SigmetRawCorx} -> SwpInRange(sw)
         [] OTHER -> TRUE

\* sweeps a response reports
RpsNumSwps(sub, sw) ==
    IF sub \in {SigmetRawRayHeaders, SigmetRawData, SigmetRawCorx} /\ ~AllSwps(sw)
    THEN 1 ELSE vol.num_swps

\* the floats of ray r of sweep s in the Data artifact: the converted values
\* of the ray, zeros when the ray is absent
DmnRayVals(s, r) ==
    [b \in 1..vol.rays[r + 1].num_bins |->
        IF vol.rays[r + 1].present THEN <<"f", s, r, b - 1>> ELSE ZeroVal]
\* the floats of sweep s, rays concatenated in order
DmnSwpVals(s) == Flatten([k \in 1..vol.num_rays |-> DmnRayVals(s, k - 1)])

\* the whole artifact of a subcommand, one element per unit: a wide ray header
\* (its bin count), a float, a piece of the volume headers, a sweep header
Artifact(sub, sw) ==
    CASE sub = SigmetRawRayHeaders ->
            [i \in 1..(RpsNumSwps(sub, sw) * vol.num_rays) |->
                vol.rays[((i - 1) % vol.num_rays) + 1].num_bins]
      [] sub \in {SigmetRawData, SigmetRawCorx} ->
            IF SwpInRange(sw) THEN DmnSwpVals(sw[2]) ELSE <<>>
      [] sub = SigmetRawVolumeHeaders -> [i \in 1..VolHdrSz |-> i]
      [] sub = SigmetRawSwpHeaders -> [i \in 1..vol.num_swps |-> i]
      [] OTHER -> <<>>

\* the seven slots of a response
RpsVals(st, sub, sw) ==
    IF st = SigmetRawOkay
    THEN [Status |-> LE4(SigmetRawOkay),
          NumSwps |-> LE4(RpsNumSwps(sub, sw)),
          NumRays |-> LE4(vol.num_rays),
          NumSwpBins |-> LE4(IF sub \in {SigmetRawData, SigmetRawCorx}
                             THEN Len(Artifact(sub, sw)) ELSE 0),
          SwpTm |-> IF AllSwps(sw) THEN DBL_0 ELSE DBL_1000,
          TZ |-> Padded(vol.tz, SIGMET_TZ_STRLEN),
          Err |-> LE4(0)]
    ELSE [Status |-> LE4(SigmetRawError), NumSwps |-> LE4(0), NumRays |-> LE4(0),
          NumSwpBins |-> LE4(0), SwpTm |-> DBL_0, TZ |-> Zeros(SIGMET_TZ_STRLEN),
          Err |-> LE4(0)]

\* the response as the daemon's msg_iov
DmnRpsIov(vals) == [j \in 1..SIGMETRAW_RPS_IOVLEN |-> Tag(RpsSlots[j], vals[RpsSlots[j]])]

DmnRecv ==
    /\ dpc = "idle"
    /\ inflight # NoMsg
    /\ \E m \in {inflight} :
       \E sub \in {I32(m.iov[1])}, ab \in {CStr(m.iov[2])}, sw \in {U32(m.iov[3])} :
       \E full \in {Artifact(sub, sw)} :
           \E st \in {SigmetRawOkay, SigmetRawError}, n \in 0..Len(full), e \in 1..MaxErrTxt :
             /\ st = SigmetRawOkay => RqstValid(sub, ab, sw) /\ e = 1
             /\ st = SigmetRawError => n = 0
             /\ dcur' = [req |-> m.req, sub |-> sub, status |-> st,
                         art |-> IF st = SigmetRawOkay THEN SubSeq(full, 1, n) ELSE <<>>,
                         errtxt |-> IF st = SigmetRawError THEN e ELSE 0,
                         files |-> m.anc[1].files,
                         vals |-> RpsVals(st, sub, sw)]
    /\ inflight' = NoMsg
    /\ dpc' = "reply"
    /\ UNCHANGED <<arg, vol, outVars, bitVars,
                   clientVars, dheld, sock, bulk, errp, sink>>

\* the response goes on the socket before any byte of the bulk channel
DmnReply ==
    /\ dpc = "reply"
    /\ sock' = [sock EXCEPT ![dcur.req] = Flatten(DmnRpsIov(dcur.vals))]
    /\ dpc' = "write"
    /\ UNCHANGED <<arg, vol, outVars, bitVars,
                   clientVars, dcur, inflight, dheld, bulk, errp, sink>>

\* one unit of the artifact to the bulk descriptor, or of the error text to
\* the error descriptor; a write to a full pipe blocks, a write to a pipe with
\* no reader fails (EPIPE) and so does a write to the read-only placeholder
DmnWrite ==
    /\ dpc = "write"
    /\ LET isArt == dcur.art # <<>>
           f == IF isArt THEN dcur.files[SigmetRawHdrDataFD + 1]
                ELSE dcur.files[SigmetRawErrFD + 1]
           rest == IF isArt THEN [dcur EXCEPT !.art = Tail(@)]
                   ELSE [dcur EXCEPT !.errtxt = @ - 1]
           \* a failed write of the artifact is reported on the error descriptor
           failed == IF isArt THEN [dcur EXCEPT !.art = <<>>, !.errtxt = 1]
                     ELSE [dcur EXCEPT !.errtxt = 0]
       IN  IF ~isArt /\ dcur.errtxt = 0
           THEN dpc' = "close" /\ UNCHANGED <<dcur, bulk, errp, sink>>
           ELSE /\ UNCHANGED dpc
                /\ IF f.kind = "bulk" /\ f.end = "w" /\ HasReader("bulk", f.req)
                   THEN /\ Len(bulk[f.req]) < PipeCap
                        /\ bulk' = [bulk EXCEPT ![f.req] = Append(@, IF isArt THEN Head(dcur.art) ELSE 0)]
                        /\ dcur' = rest
                        /\ UNCHANGED <<errp, sink>>
                   ELSE IF f.kind = "err" /\ f.end = "w" /\ HasReader("err", f.req)
                   THEN /\ errp[f.req] < PipeCap
                        /\ errp' = [errp EXCEPT ![f.req] = @ + 1]
                        /\ dcur' = rest
                        /\ UNCHANGED <<bulk, sink>>
                   ELSE IF f.kind = "std" /\ f.end = "w"
                   THEN /\ sink' = sink + 1
                        /\ dcur' = rest
                        /\ UNCHANGED <<bulk, errp>>
                   ELSE /\ dcur' = failed
                        /\ UNCHANGED <<bulk, errp, sink>>
    /\ UNCHANGED <<arg, vol, outVars, bitVars,
                   clientVars, inflight, dheld, sock>>

\* the daemon closes both descriptors and the accepted socket
DmnClose ==
    /\ dpc = "close"
    /\ dheld' = dheld \ Range(dcur.files)
    /\ dcur' = NoCur
    /\ dpc' = "idle"
    /\ UNCHANGED <<arg, vol, outVars, bitVars,
                   clientVars, inflight, sock, bulk, errp, sink>>

\* the daemon closes the connection and the descriptors of the request
\* without a response
DmnDrop ==
    /\ dpc = "reply"
    /\ dheld' = dheld \ Range(dcur.files)
    /\ dcur' = NoCur
    /\ dpc' = "idle"
    /\ UNCHANGED <<arg, vol, outVars, bitVars,
                   clientVars, inflight, sock, bulk, errp, sink>>

Client ==
    \/ SigmetRaw_DmnConnect
    \/ MakePipes
    \/ SigmetRaw_Rqst_Set_SubCmd
    \/ SigmetRaw_Rqst_Set_DataType
    \/ SigmetRaw_Rqst_Set_Swp
    \/ SigmetRaw_Rqst_Set_ShFD
    \/ SigmetRaw_Rqst_Set_ErrFD
    \/ SigmetRaw_Rqst_Send
    \/ RecvRps
    \/ ErrCopy
    \/ FRead
    \/ AfterRead

Daemon == DmnRecv \/ DmnReply \/ DmnWrite \/ DmnClose

Next == Client \/ Daemon

Spec == Init /\ [][Next]_vars

\* a step of the client in which no system call is assumed to fail: waiting
\* in recvmsg ends only when the response is there
ClientRuns == Client /\ (pc = "recv" => log' # log)

\* the client runs while it is not blocked; the daemon serves every request
\* it has received
SpecLive == Init /\ [][Next]_vars /\ WF_vars(ClientRuns) /\ WF_vars(Daemon)

\* the executables with a daemon that may close a connection without a
\* response
NextDrop == Client \/ Daemon \/ DmnDrop
InitDrop == Init /\ arg.cmd \in Executables
SpecDrop == InitDrop /\ [][NextDrop]_vars

(***************************************************************************)
(* skt_to_txt with a daemon whose volume has rays of every bin count, with *)
(* and without data, or no ray at all.                                     *)
(***************************************************************************)
TxtVolumes ==
    UNION {{DmnVolume(1, nr, MaxBins, rays) :
               rays \in [1..nr -> [num_bins : 0..MaxBins, present : BOOLEAN]]} :
           nr \in 0..MaxRays}

InitTxt ==
    /\ arg = [cmd |-> "skt_to_txt", s |-> ToUnsigned(0), abbrv |-> DB_DBZ]
    /\ vol \in TxtVolumes
    /\ pc = "start"
    /\ cfd = StdTable
    /\ loc = NoLoc
    /\ InitRest /\ NoBits

SpecTxt == InitTxt /\ [][Next]_vars

(***************************************************************************)
(* main of data.c and of ray_headers.c, and the functions that read a raw  *)
(* product file: data_fm_fl and ray_hdrs_fm_fl.  The library behind        *)
(* sigmet.h (Sigmet_DataTypeGet, Sigmet_VolReadVHdr, Sigmet_VolReadDat,    *)
(* Sigmet_DataTypeStorToVal, ...) is taken from the specification.         *)
(***************************************************************************)
DB_XHDR == <<68, 66, 95, 88, 72, 68, 82>>
NoArg == <<-1>>                          \* an argument that is not given (NULL)
Digit(k) == <<48 + k>>                   \* "0" .. "9"
STR_MINUS1 == <<45, 49>>                 \* "-1"
STR_ALL == <<97, 108, 108>>              \* "all"
STR_X == <<120>>                         \* "x", not a number

IsDigit(c) == c \in 48..57
\* the value of the longest run of digits at the start of str, -1 when there is none
RECURSIVE ScanDigits(_, _, _)
ScanDigits(str, k, acc) ==
    IF k <= Len(str) /\ IsDigit(str[k]) THEN ScanDigits(str, k + 1, 10 * acc + (str[k] - 48))
    ELSE IF k = 1 THEN -1 ELSE acc
\* sscanf(str, "%d", &s): conversions made and the value stored
ScanD(str) ==
    LET neg == str # <<>> /\ str[1] = 45
        v == ScanDigits(IF neg THEN Tail(str) ELSE str, 1, 0)
    IN  IF v < 0 THEN [n |-> 0, val |-> 0] ELSE [n |-> 1, val |-> IF neg THEN -v ELSE v]
\* sscanf(str, "%u", &i_swp): like strtoul, a minus sign negates modulo 2^32
ScanU(str) == [n |-> ScanD(str).n, val |-> ToUnsigned(ScanD(str).val)]

\* Sigmet_DataTypeGet: NULL (FALSE) for an abbreviation that is not registered
Sigmet_DataTypeGet(abbrv) == abbrv \in Registered \cup {DB_XHDR}
\* Sigmet_VolTypeIdx: index of the type in the volume, -1 when it is not there
Sigmet_VolTypeIdx(abbrv, v) ==
    IF \E y \in DOMAIN v.types : v.types[y] = abbrv
    THEN (CHOOSE y \in DOMAIN v.types : v.types[y] = abbrv) - 1
    ELSE -1
\* curr_data_mask.mask_wd0 & 1
Sigmet_VolXHdr(v) == v.mask_wd0 % 2 = 1
SigmetRaw_GetAllSwps(i_swp) == i_swp = UINT_MAX

PathKinds == {"file", "socket", "other", "missing"}
\* the sweep arguments: every index up to one past the last sweep, "-1", "all", "x"
SwpStrs == {Digit(k) : k \in 0..MaxSwps} \cup {STR_MINUS1, STR_ALL, STR_X}

\* the command lines: argc, the -b flag, the data type, the sweep and the path
DataArgs ==
    [prog : {"data"}, argc : {4, 5}, abbrv : {DB_DBZ, DB_TEMPERATURE16, Abbrv(3)},
     s_s : SwpStrs, path : PathKinds]
    \cup [prog : {"data"}, argc : {3}, abbrv : {NoArg}, s_s : {Digit(0)}, path : {"file"}]
RayHdrArgs ==
    [prog : {"ray_headers"}, argc : {4}, abbrv : {DB_DBZ, DB_TEMPERATURE16, Abbrv(3)},
     s_s : SwpStrs, path : PathKinds]
    \cup [prog : {"ray_headers"}, argc : {3}, abbrv : {NoArg}, s_s : SwpStrs, path : PathKinds]
    \cup [prog : {"ray_headers"}, argc : {2}, abbrv : {NoArg}, s_s : {Digit(0)}, path : {"file"}]
MainArgs == DataArgs \cup RayHdrArgs

\* data: txt is false when -b is given
Txt == arg.argc = 4
\* the sweep index after sscanf: int s in data.c, unsigned i_swp in ray_headers.c
MainS == ScanD(arg.s_s).val
MainISwp == IF arg.s_s = STR_ALL THEN UINT_MAX ELSE ScanU(arg.s_s).val

\* a ray of the file: its header and whether it has data (dat # NULL); the
\* storage values of ray r of sweep s are <<s, r, b>>, b = 0 .. num_bins - 1
RayOpts == [num_bins : 0..MaxBins, present : BOOLEAN]
\* the time in the ray header, and the time in the extended header of a ray
RayHdrTm(s, r) == <<"ray_hdr.tm", s, r>>
XHdrTm(s, r) == <<"xhdr", s, r>>
SwpTm(s) == 100 * (s + 1)

\* mask word 0 of the data types in the file: bit 0 is the extended header,
\* bit 2 is DB_DBZ; the types are in the order of their bits
MaskWords == {4, 5}
\* the data types of the first bits of mask word 0, by bit: bit 0 is the
\* extended header
DB_DBT == <<68, 66, 95, 68, 66, 84>>
DB_VEL == <<68, 66, 95, 86, 69, 76>>
MaskTypes == <<DB_XHDR, DB_DBT, DB_DBZ, DB_VEL>>
\* the types of the bits b and up that are set in the mask, lowest bit first
RECURSIVE TypesFmBit(_, _)
TypesFmBit(mask_wd0, b) ==
    IF b >= Len(MaskTypes) THEN <<>>
    ELSE (IF Bit(mask_wd0, b) = 1 THEN <<MaskTypes[b + 1]>> ELSE <<>>)
             \o TypesFmBit(mask_wd0, b + 1)
\* Sigmet_DataTypes_FmMask: the types of the volume, from its data mask
Sigmet_DataTypes_FmMask(mask_wd0) == TypesFmBit(mask_wd0, 0)
TypesOf(mask_wd0) == Sigmet_DataTypes_FmMask(mask_wd0)

FlVolume(ns, nr, mask_wd0, rays) ==
    [num_swps |-> ns, num_rays |-> nr, num_bins |-> MaxBins, tz |-> TZ_UTC,
     mask_wd0 |-> mask_wd0, types |-> TypesOf(mask_wd0), rays |-> rays]
\* volumes whose rays all have data and one bin
PlainVolumes ==
    {FlVolume(ns, nr, mask_wd0, [r \in 1..nr |-> [num_bins |-> 1, present |-> TRUE]]) :
        ns \in 1..MaxSwps, nr \in 1..MaxRays, mask_wd0 \in MaskWords}
\* volumes with every mix of bin counts and absent rays
MixedVolumes ==
    UNION {{FlVolume(ns, nr, mask_wd0, rays) : ns \in 1..MaxSwps, mask_wd0 \in MaskWords,
                                              rays \in [1..nr -> RayOpts]} : nr \in 1..MaxRays}

\* what main and the file functions leave alone
restVars == <<req, todo, nsets, rqst, loc, ret, sent, rps, got, rhdrs, errOut, calls, dat,
              bitVars, daemonVars, inflight, dheld, sock, bulk, errp>>

\* fprintf(stderr, ...); exit(EXIT_FAILURE)
Fail(msg) ==
    /\ stderr' = Append(stderr, msg)
    /\ Exit(EXIT_FAILURE)

\* the check of argc
ArgcOK == IF arg.prog = "data" THEN arg.argc \in {4, 5} ELSE arg.argc \in {3, 4}
MainUsage ==
    /\ pc = "main"
    /\ IF ArgcOK
       THEN pc' = "type" /\ UNCHANGED <<stderr, exitCode, cfd>>
       ELSE Fail(<<"Usage: ", arg.prog>>)
    /\ UNCHANGED <<arg, vol, restVars, lines, out, sink, envTZ, log>>

\* mutant of MainType: the abbreviation is not looked up
MainTypeUnchecked ==
    /\ pc = "type"
    /\ pc' = "sweep"
    /\ UNCHANGED <<arg, vol, restVars, lines, out, sink, envTZ, log, stderr, exitCode, cfd>>

\* Sigmet_DataTypeGet(abbrv) and the message when it returns NULL; ray_headers
\* looks the type up only when it is given
MainType ==
    /\ pc = "type"
    /\ IF arg.abbrv # NoArg /\ ~Sigmet_DataTypeGet(arg.abbrv)
       THEN Fail(<<arg.prog, ": ", arg.abbrv, " is not a Sigmet data type.">>)
       ELSE pc' = "sweep" /\ UNCHANGED <<stderr, exitCode, cfd>>
    /\ UNCHANGED <<arg, vol, restVars, lines, out, sink, envTZ, log>>

\* sscanf of the sweep index: "%d" in data, "all" or "%u" in ray_headers
SwpArgOK ==
    IF arg.prog = "data" THEN ScanD(arg.s_s).n = 1
    ELSE arg.s_s = STR_ALL \/ ScanU(arg.s_s).n = 1
MainSwp ==
    /\ pc = "sweep"
    /\ IF SwpArgOK
       THEN pc' = "stat" /\ UNCHANGED <<stderr, exitCode, cfd>>
       ELSE Fail(<<arg.prog, ": expected integer for sweep index, got ", arg.s_s>>)
    /\ UNCHANGED <<arg, vol, restVars, lines, out, sink, envTZ, log>>

\* stat(path) and the choice of the function that does the work
MainStat ==
    /\ pc = "stat"
    /\ CASE arg.path = "file" -> pc' = "fl_open" /\ UNCHANGED <<stderr, exitCode, cfd>>
         [] arg.path = "socket" -> pc' = "socket" /\ UNCHANGED <<stderr, exitCode, cfd>>
         [] arg.path = "missing" ->
                Fail(<<arg.prog, ": could not get information about path">>)
         [] OTHER -> Fail(<<arg.prog, ": path must be a file, fifo, or socket.">>)
    /\ UNCHANGED <<arg, vol, restVars, lines, out, sink, envTZ, log>>

\* fopen and Sigmet_VolReadVHdr
FlOpen ==
    /\ pc = "fl_open"
    /\ \E ok \in BOOLEAN :
         IF ok THEN pc' = "fl_chk" /\ UNCHANGED <<stderr, exitCode, cfd>>
         ELSE Fail(<<arg.prog, ": could not read volume headers">>)
    /\ UNCHANGED <<arg, vol, restVars, lines, out, sink, envTZ, log>>

\* mutant of SwpInVol: only the upper end of the range is checked
SwpInVolNoLower ==
    IF arg.prog = "data" THEN MainS < vol.num_swps
    ELSE MainISwp[1] = 0 /\ MainISwp[2] < vol.num_swps

\* the sweep index is in the volume: data_fm_fl takes an int,
\* ray_hdrs_fm_fl an unsigned for which UINT_MAX means all sweeps
SwpInVol ==
    IF arg.prog = "data" THEN ~(MainS < 0 \/ MainS >= vol.num_swps)
    ELSE ~(~SigmetRaw_GetAllSwps(MainISwp)
           /\ (MainISwp[1] > 0 \/ MainISwp[2] >= vol.num_swps))
\* mutant of TypeIdx: the default is the first type of the volume
TypeIdxFirst ==
    IF arg.abbrv # NoArg THEN Sigmet_VolTypeIdx(arg.abbrv, vol) ELSE 0

\* the index of the data type whose rays are used
TypeIdx ==
    IF arg.abbrv # NoArg THEN Sigmet_VolTypeIdx(arg.abbrv, vol)
    ELSE IF Sigmet_VolXHdr(vol) THEN 1 ELSE 0

\* the checks between the volume headers and the reading of the data
FlCheck ==
    /\ pc = "fl_chk"
    /\ \E allocOK \in BOOLEAN :
         IF ~SwpInVol
         THEN allocOK /\ Fail(<<arg.prog, ": sweep index out of range.">>)
         ELSE IF TypeIdx = -1
         THEN allocOK /\ Fail(<<arg.prog, ": data type is not in volume">>)
         ELSE IF arg.prog = "data" /\ vol.num_bins <= 0
         THEN allocOK /\ Fail(<<arg.prog, ": corrupt, claims no bins per ray">>)
         ELSE IF ~allocOK
         THEN Fail(<<arg.prog, ": could not allocate memory">>)
         ELSE pc' = "fl_read" /\ UNCHANGED <<stderr, exitCode, cfd>>
    /\ UNCHANGED <<arg, vol, restVars, lines, out, sink, envTZ, log>>

\* rays[s][r][y] of the file: ray_hdr.num_bins, and the converted data, NoDat
\* when dat is NULL
RayNumBins(s, r) == vol.rays[r + 1].num_bins
NoDat == <<"NULL">>
\* Sigmet_DataTypeStorToVal on the nb storage values of a ray: nb floats
StorToVal(s, r, nb) == [b \in 1..nb |-> <<"f", s, r, b - 1>>]
RayDat(s, r) == IF vol.rays[r + 1].present THEN StorToVal(s, r, RayNumBins(s, r)) ELSE NoDat

\* the largest bin count in the ray headers of sweep s
RECURSIVE MaxBinsTo(_, _)
MaxBinsTo(s, r) ==
    IF r < 0 THEN 0
    ELSE IF RayNumBins(s, r) > MaxBinsTo(s, r - 1) THEN RayNumBins(s, r)
    ELSE MaxBinsTo(s, r - 1)
NumBinsMaxFl(s) == MaxBinsTo(s, vol.num_rays - 1)

\* Sigmet_VolReadDat, and what follows it up to the output loop
FlRead ==
    /\ pc = "fl_read"
    /\ \E rdOK \in BOOLEAN, libOK \in BOOLEAN :
         IF ~rdOK
         THEN /\ libOK
              /\ Fail(<<arg.prog, ": has no data.">>)
              /\ UNCHANGED <<log, envTZ>>
         ELSE /\ log' = Append(log, <<0, "read_dat">>)
              /\ IF arg.prog = "data"
                 THEN IF NumBinsMaxFl(MainS) = 0
                      THEN libOK /\ Fail(<<arg.prog, ": raw product file has no data.">>)
                                 /\ UNCHANGED envTZ
                      ELSE IF ~libOK
                      THEN Fail(<<arg.prog, ": could not allocate memory">>) /\ UNCHANGED envTZ
                      ELSE pc' = "fl_print" /\ UNCHANGED <<stderr, exitCode, cfd, envTZ>>
                 ELSE \* Sigmet_VolTZSet
                      IF ~libOK
                      THEN Fail(<<arg.prog, ": could not set time zone">>) /\ UNCHANGED envTZ
                      ELSE /\ pc' = "fl_print"
                           /\ envTZ' = vol.tz
                           /\ UNCHANGED <<stderr, exitCode, cfd>>
    /\ UNCHANGED <<arg, vol, restVars, lines, out, sink>>

\* data_fm_fl, one line of text: dat is set to NaN, the values of the ray are
\* converted into its first num_bins places if the ray has data, and
\* num_bins_max values are printed
DataLineFl(s, r, num_bins_max) ==
    [b \in 1..num_bins_max |->
        IF RayDat(s, r) # NoDat /\ b <= RayNumBins(s, r) THEN RayDat(s, r)[b] ELSE NaN]

\* data_fm_fl, binary output: the arrays the calls of fwrite send, rays 0 .. r
RECURSIVE FwriteFl(_, _)
FwriteFl(s, r) ==
    IF r < 0 THEN <<>>
    ELSE FwriteFl(s, r - 1) \o (IF RayDat(s, r) # NoDat THEN <<RayDat(s, r)>> ELSE <<>>)

\* mutant of DataBinFl: the bins of a ray without data are written too
RECURSIVE DataBinFlEveryRay(_, _)
DataBinFlEveryRay(s, r) ==
    IF r < 0 THEN 0 ELSE DataBinFlEveryRay(s, r - 1) + RayNumBins(s, r)

\* data_fm_fl, binary output: the values fwrite sends for the rays that have data
RECURSIVE DataBinFl(_, _)
DataBinFl(s, r) ==
    IF r < 0 THEN 0
    ELSE DataBinFl(s, r - 1) + (IF RayDat(s, r) # NoDat THEN RayNumBins(s, r) ELSE 0)

\* mutant of RayTm: the time of the ray header whatever the volume has
RayTmFromRayHdr(hav_xhdr, s, r) == RayHdrTm(s, r)

\* ray_hdrs_fm_fl: the time of a ray relative to the start of its sweep; with
\* extended headers it is converted from the data of type DB_XHDR (NaN stays
\* when the ray has none)
RayTm(hav_xhdr, s, r) ==
    IF hav_xhdr THEN (IF vol.rays[r + 1].present THEN XHdrTm(s, r) ELSE NaN)
    ELSE RayHdrTm(s, r)

\* ray_hdrs_fm_fl: a line of output; the time printed is swp_tm + ray_tm
RayHdrLine(s, r) ==
    <<s, r, <<SwpTm(s), "+", RayTm(Sigmet_VolXHdr(vol), s, r)>>, RayNumBins(s, r)>>

\* the sweeps ray_hdrs_fm_fl prints: s0 .. s1 - 1
SwpFirst(i_swp) == IF SigmetRaw_GetAllSwps(i_swp) THEN 0 ELSE i_swp[2]
SwpEnd(i_swp, num_swps) == IF SigmetRaw_GetAllSwps(i_swp) THEN num_swps ELSE i_swp[2] + 1
S0 == SwpFirst(MainISwp)
S1 == SwpEnd(MainISwp, vol.num_swps)

\* the calls of Sigmet_DataTypeStorToVal made for ray r of sweep s, as entries
\* of the log: data_fm_fl converts the data of the ray if dat is not NULL,
\* ray_hdrs_fm_fl converts the extended header of the ray, whatever dat is,
\* if the volume has extended headers
StorToValCalls(s, r) ==
    IF arg.prog = "data"
    THEN (IF RayDat(s, r) # NoDat THEN <<<<0, "StorToVal">>>> ELSE <<>>)
    ELSE IF Sigmet_VolXHdr(vol)
    THEN <<<<0, IF vol.rays[r + 1].present THEN "StorToVal" ELSE "StorToVal(NULL)">>>>
    ELSE <<>>

\* one pass of the output loop of data_fm_fl (the whole loop for binary
\* output) or of ray_hdrs_fm_fl, and the exit after the last one
FlPrintRay ==
    /\ pc = "fl_print"
    /\ IF arg.prog = "data" /\ Txt
       THEN IF Len(lines) < vol.num_rays
            THEN /\ lines' = Append(lines, DataLineFl(MainS, Len(lines), NumBinsMaxFl(MainS)))
                 /\ log' = log \o StorToValCalls(MainS, Len(lines))
                 /\ out' = out + 1
                 /\ UNCHANGED <<pc, exitCode, cfd, sink>>
            ELSE Exit(EXIT_SUCCESS) /\ UNCHANGED <<lines, out, sink, log>>
       ELSE IF arg.prog = "data"
       THEN /\ sink' = sink + DataBinFl(MainS, vol.num_rays - 1)
            /\ lines' = FwriteFl(MainS, vol.num_rays - 1)
            /\ log' = log \o Flatten([k \in 1..vol.num_rays |-> StorToValCalls(MainS, k - 1)])
            /\ Exit(EXIT_SUCCESS)
            /\ UNCHANGED out
       ELSE IF Len(lines) < (S1 - S0) * vol.num_rays
            THEN /\ lines' = Append(lines, RayHdrLine(S0 + (Len(lines) \div vol.num_rays),
                                                      Len(lines) % vol.num_rays))
                 /\ log' = log \o StorToValCalls(S0 + (Len(lines) \div vol.num_rays),
                                                  Len(lines) % vol.num_rays)
                 /\ out' = out + 1
                 /\ UNCHANGED <<pc, exitCode, cfd, sink>>
            ELSE Exit(EXIT_SUCCESS) /\ UNCHANGED <<lines, out, sink, log>>
    /\ UNCHANGED <<arg, vol, restVars, stderr, envTZ>>

Main == MainUsage \/ MainType \/ MainSwp \/ MainStat
FilePath == FlOpen \/ FlCheck \/ FlRead \/ FlPrintRay
NextMain == Main \/ FilePath

InitMainRest ==
    /\ pc = "main"
    /\ cfd = StdTable
    /\ loc = NoLoc
    /\ InitRest /\ NoBits

\* every command line, on volumes whose rays all have data
InitMain == arg \in MainArgs /\ vol \in PlainVolumes /\ InitMainRest
SpecMain == InitMain /\ [][NextMain]_vars

\* command lines that reach the output, on volumes with every mix of rays
FlArgs == {a \in MainArgs : a.path = "file" /\ a.abbrv \in {DB_DBZ, NoArg}
                            /\ a.s_s \in {Digit(0), Digit(MaxSwps - 1), STR_ALL}}
InitFl == arg \in FlArgs /\ vol \in MixedVolumes /\ InitMainRest
SpecFl == InitFl /\ [][NextMain]_vars

\* ray_headers and data on a file, on volumes with every data mask that has a
\* measurement
MaskVolumes ==
    {FlVolume(1, 1, mask_wd0, <<[num_bins |-> 1, present |-> TRUE]>>) :
        mask_wd0 \in 2..(2 ^ Len(MaskTypes) - 1)}
MaskArgs == {a \in MainArgs : a.path = "file" /\ a.abbrv \in {DB_DBZ, NoArg}
                              /\ a.s_s = Digit(0)}
InitMask == arg \in MaskArgs /\ vol \in MaskVolumes /\ InitMainRest
SpecMask == InitMask /\ [][NextMain]_vars

\* every command line on a file, on volumes of every size whose data mask has
\* a type, the extended header counted as one
GridVolumes ==
    {FlVolume(ns, nr, mask_wd0, [r \in 1..nr |-> [num_bins |-> 1, present |-> TRUE]]) :
        ns \in 1..MaxSwps, nr \in 1..MaxRays, mask_wd0 \in 1..(2 ^ Len(MaskTypes) - 1)}
InitGrid ==
    /\ arg \in {a \in MainArgs : a.path = "file"}
    /\ vol \in GridVolumes
    /\ InitMainRest
SpecGrid == InitGrid /\ [][NextMain]_vars

(***************************************************************************)
(* copy_bits_packed_right (copy_bits.c).  o, n and i are size_t: their     *)
(* arithmetic is modulo 2^SizeBits.  The caller provides the bits          *)
(* o .. o + n - 1 at src and room for n bits at dest; here dest has one    *)
(* byte more than that, and src and dest do not overlap.                   *)
(***************************************************************************)
SIZE_MAX == 2 ^ SizeBits - 1
\* the result of an operation on size_t
SizeT(x) == x % (SIZE_MAX + 1)

\* the number of bytes that hold n bits
BytesFor(n) == (n + 7) \div 8

\* size_t dest_bytes_len = (n + 7) / 8
DestBytesLen(n) == SizeT(n + 7) \div 8

\* memset(dest_bytes, 0, len)
Memset0(bytes, len) == [k \in DOMAIN bytes |-> IF k <= len THEN 0 ELSE bytes[k]]

\* size_t src_bit_pos = o + i
SrcBitPos(o, i) == SizeT(o + i)

\* uint8_t bit_val = (src_bytes[src_byte] >> src_bit) & 1
BitVal(bytes, src_bit_pos) == Bit(bytes[src_bit_pos \div 8 + 1], src_bit_pos % 8)

\* dest_bytes[dest_byte] |= (bit_val << dest_bit)
OrBit(byte, bit_val, dest_bit) ==
    IF bit_val = 1 /\ Bit(byte, dest_bit) = 0 THEN byte + 2 ^ dest_bit ELSE byte

cbRest == <<arg, vol, req, todo, nsets, rqst, cfd, loc, exitCode, ret, sent, rps, got, rhdrs,
            out, errOut, envTZ, log, calls, outVars, daemonVars, chanVars, decVars>>

\* the call up to the loop
CbMemset ==
    /\ pc = "cb_call"
    /\ dest_bytes' = Memset0(dest_bytes, DestBytesLen(cb_n))
    /\ cb_i' = 0
    /\ pc' = "cb_loop"
    /\ UNCHANGED <<src_bytes, dest0, cb_o, cb_n, cbRest>>

\* the test of the loop and one pass through its body
CbLoop ==
    /\ pc = "cb_loop"
    /\ IF cb_i < cb_n
       THEN /\ dest_bytes' = [dest_bytes EXCEPT ![cb_i \div 8 + 1] =
                                 OrBit(@, BitVal(src_bytes, SrcBitPos(cb_o, cb_i)), cb_i % 8)]
            /\ cb_i' = SizeT(cb_i + 1)
            /\ UNCHANGED pc
       ELSE /\ pc' = "cb_done"
            /\ UNCHANGED <<dest_bytes, cb_i>>
    /\ UNCHANGED <<src_bytes, dest0, cb_o, cb_n, cbRest>>

NextBits == CbMemset \/ CbLoop

\* the values of the bytes at src, and of every byte at dest before the call
ByteVals == {0, 165, 255}
DestFill == {90, 255}

InitBits ==
    /\ src_bytes \in UNION {[1..len -> ByteVals] : len \in 1..MaxSrcLen}
    /\ cb_o \in 0..SIZE_MAX
    /\ cb_n \in 0..SIZE_MAX
    /\ cb_o + cb_n <= 8 * Len(src_bytes)
    /\ \E fill \in DestFill : dest_bytes = [k \in 1..(BytesFor(cb_n) + 1) |-> fill]
    /\ dest0 = dest_bytes
    /\ cb_i = 0
    /\ pc = "cb_call"
    /\ arg = [cmd |-> "copy_bits"]
    /\ vol \in {v \in Volumes : v.num_swps = 1 /\ v.num_rays = 1 /\ v.num_bins = 0}
    /\ cfd = StdTable
    /\ loc = NoLoc
    /\ InitRest /\ NoDec

SpecBits == InitBits /\ [][NextBits]_vars

(***************************************************************************)
(* The decompression of the rays of a sweep in Sigmet_VolReadDat, from the *)
(* specification (section 4.2).  The file is a sequence of records, each a *)
(* raw_prod_bhdr (one word here, holding the record number) and RecWds     *)
(* 16-bit words.  The words after the headers are tokens and the data      *)
(* words of literal tokens.  Each ray has vol.num_bins words in the sample *)
(* buffer, ray after ray.                                                  *)
(***************************************************************************)
TopBit == 2 ^ 15
EndRay == [kind |-> "end_ray", k |-> 0, wds |-> <<>>]
EndSwp == [kind |-> "end_swp", k |-> 0, wds |-> <<>>]
Lit(wds) == [kind |-> "lit", k |-> Len(wds), wds |-> wds]
Run(k) == [kind |-> "run", k |-> k, wds |-> <<>>]

\* the words a token is written as: 0x0000, 0x8000, the count and the data
\* words, 0x8000 + k
TokWds(t) ==
    CASE t.kind = "end_ray" -> <<0>>
      [] t.kind = "end_swp" -> <<TopBit>>
      [] t.kind = "lit" -> <<t.k>> \o t.wds
      [] OTHER -> <<TopBit + t.k>>
Encode(toks) == Flatten([i \in DOMAIN toks |-> TokWds(toks[i])])

\* the words laid out in records, the first of them record number recno
RECURSIVE Records(_, _)
Records(wds, recno) ==
    IF wds = <<>> THEN <<>>
    ELSE <<recno>> \o SubSeq(wds, 1, Min(RecWds, Len(wds)))
             \o Records(SubSeq(wds, Min(RecWds, Len(wds)) + 1, Len(wds)), recno + 1)

\* mutant of WdPos: the record header is read as a word of the stream
WdPosNoBhdr(rd) == rd + 1

\* the place in the file of the next word of the stream after rd words have
\* been read: at the start of a record the raw_prod_bhdr is passed over
WdPos(rd) == IF rd % (RecWds + 1) = 0 THEN rd + 2 ELSE rd + 1
HasWd(rd) == WdPos(rd) <= Len(dc_file)

\* the expected size of a ray, and the room left in the current ray
RaySz == vol.num_bins
RayEnd(r) == (r + 1) * RaySz
Room == RayEnd(dc_ray) - dc_cur

\* mutant of RunLen: the whole run is written
RunLenWhole(k, room) == k

\* the zero words a run of k writes with room words left in the ray
RunLen(k, room) == Min(k, room)

\* the sample buffer after wds have been stored at offset cur
Store(buf, cur, wds) ==
    [i \in DOMAIN buf |-> IF cur < i /\ i <= cur + Len(wds) THEN wds[i - cur] ELSE buf[i]]

DcFail(kind) ==
    /\ pc' = "dc_failed"
    /\ dc_err' = <<kind>>

decRest == <<arg, vol, req, todo, nsets, rqst, cfd, loc, exitCode, ret, sent, rps, got, rhdrs,
             out, errOut, envTZ, log, calls, outVars, daemonVars, chanVars,
             src_bytes, dest_bytes, dest0, cb_o, cb_n, cb_i, dc_toks, dc_file>>

\* the decoder reads a token
DcToken ==
    /\ pc = "dc_token"
    /\ IF ~HasWd(dc_rd)
       THEN /\ DcFail("TruncatedStream")
            /\ UNCHANGED <<dc_rd, dc_buf, dc_cur, dc_ray, dc_lit, dc_len, dc_trunc>>
       ELSE \E w \in {dc_file[WdPos(dc_rd)]} :
            /\ dc_rd' = WdPos(dc_rd)
            /\ CASE w = 0 ->
                      \* end of ray: the rest of the ray is zero, on to the next ray
                      /\ dc_len' = Append(dc_len, dc_cur - dc_ray * RaySz)
                      /\ dc_buf' = Store(dc_buf, dc_cur, Zeros(Room))
                      /\ dc_ray' = dc_ray + 1
                      /\ dc_cur' = RayEnd(dc_ray)
                      /\ pc' = IF dc_ray + 1 = vol.num_rays THEN "dc_done" ELSE "dc_token"
                      /\ UNCHANGED <<dc_lit, dc_err, dc_trunc>>
                 [] w = TopBit ->
                      \* end of sweep
                      /\ pc' = "dc_done"
                      /\ UNCHANGED <<dc_buf, dc_cur, dc_ray, dc_lit, dc_len, dc_err, dc_trunc>>
                 [] w > 0 /\ w < TopBit ->
                      \* w data words follow; what is done with a count
                      \* larger than the room is not specified: the decoder
                      \* fails, or it stores the words there is room for
                      /\ \E cut \in BOOLEAN :
                           IF w > Room /\ ~cut
                           THEN DcFail("MalformedHeader") /\ UNCHANGED dc_lit
                           ELSE pc' = "dc_literal" /\ dc_lit' = w /\ UNCHANGED dc_err
                      /\ UNCHANGED <<dc_buf, dc_cur, dc_ray, dc_len, dc_trunc>>
                 [] OTHER ->
                      \* a run of w - 0x8000 zero words, cut to the room left
                      /\ dc_buf' = Store(dc_buf, dc_cur, Zeros(RunLen(w - TopBit, Room)))
                      /\ dc_cur' = dc_cur + RunLen(w - TopBit, Room)
                      /\ dc_trunc' = IF w - TopBit > Room THEN dc_trunc \cup {dc_ray}
                                     ELSE dc_trunc
                      /\ UNCHANGED <<pc, dc_ray, dc_lit, dc_len, dc_err>>
    /\ UNCHANGED decRest

\* the decoder copies one data word of a literal token
DcLiteral ==
    /\ pc = "dc_literal"
    /\ IF ~HasWd(dc_rd)
       THEN /\ DcFail("TruncatedStream")
            /\ UNCHANGED <<dc_rd, dc_buf, dc_cur, dc_lit>>
       ELSE /\ dc_rd' = WdPos(dc_rd)
            /\ IF Room > 0
               THEN /\ dc_buf' = Store(dc_buf, dc_cur, <<dc_file[WdPos(dc_rd)]>>)
                    /\ dc_cur' = dc_cur + 1
               ELSE UNCHANGED <<dc_buf, dc_cur>>
            /\ dc_lit' = dc_lit - 1
            /\ pc' = IF dc_lit = 1 THEN "dc_token" ELSE "dc_literal"
            /\ UNCHANGED dc_err
    /\ UNCHANGED <<dc_ray, dc_len, dc_trunc, decRest>>

NextDec == DcToken \/ DcLiteral

\* the data words of a literal token of n words: v, v + 1, ...
LitWds(n, v) == [i \in 1..n |-> v + i - 1]
Toks ==
    {EndRay, EndSwp} \cup {Run(k) : k \in 1..MaxTokLen}
        \cup {Lit(LitWds(n, v)) : n \in 1..MaxTokLen, v \in {0, TopBit}}
TokSeqs == UNION {[1..n -> Toks] : n \in 1..MaxToks}
\* volumes of one sweep whose rays have room
DecVolumes == {v \in Volumes : v.num_swps = 1 /\ v.num_bins >= 1}

\* the decoder is at the first token of a sweep; the sample buffer holds
\* what the allocation left in it
InitDec ==
    /\ dc_toks \in TokSeqs
    /\ dc_file = Records(Encode(dc_toks), 3)
    /\ vol \in DecVolumes
    /\ dc_buf = [i \in 1..(vol.num_rays * vol.num_bins) |-> 2 ^ 16 - 1]
    /\ dc_rd = 0 /\ dc_cur = 0 /\ dc_ray = 0 /\ dc_lit = 0
    /\ dc_len = <<>> /\ dc_err = <<>> /\ dc_trunc = {}
    /\ pc = "dc_token"
    /\ arg = [cmd |-> "VolReadDat"]
    /\ cfd = StdTable
    /\ loc = NoLoc
    /\ InitRest /\ NoCopy

SpecDec == InitDec /\ [][NextDec]_vars

(***************************************************************************)
(* Properties of the request message (checked under SpecRqst).             *)
(***************************************************************************)
\* the open file a descriptor field of the request stands for: the caller's
\* file when the field is set, the /dev/null placeholder when it is not
Channel(fd) == IF fd >= 0 THEN cfd[fd] ELSE DevNull

\* C1: every request SigmetRaw_Rqst_Send sends is one sendmsg whose regular
\* data is the subcommand code, the 16-byte abbreviation field and the sweep
\* index, in this order, and whose ancillary data is one SCM_RIGHTS message
\* with exactly two descriptors, the error channel first and the bulk channel
\* second, whatever the caller has set.
C1_RequestShape ==
    /\ Len(sent) <= 1
    /\ (pc = "returned" /\ ret = 1) => Len(sent) = 1
    /\ \A i \in DOMAIN sent :
         LET m == sent[i]
         IN  /\ Len(m.iov) = SIGMETRAW_RQST_IOVLEN
             /\ Len(m.iov[1]) = SizeofInt /\ I32(m.iov[1]) = rqst.sub_cmd_n
             /\ Len(m.iov[2]) = SIGMET_DATA_TYPE_LEN /\ m.iov[2] = rqst.abbrv
             /\ Len(m.iov[3]) = SizeofInt /\ I32(m.iov[3]) = rqst.s
             /\ Len(m.anc) = 1
             /\ m.anc[1].level = "SOL_SOCKET" /\ m.anc[1].type = "SCM_RIGHTS"
             /\ Len(m.anc[1].fds) = 2
             /\ m.anc[1].files[SigmetRawErrFD + 1] = Channel(rqst.err_fd)
             /\ m.anc[1].files[SigmetRawHdrDataFD + 1] = Channel(rqst.hd_fd)

\* a request was sent by a caller that set the bulk descriptor to standard
\* output, left the error descriptor unset and set no subcommand
C1_Witness ==
    /\ IsLib /\ Len(sent) = 1 /\ ret = 1
    /\ rqst.hd_fd = STDOUT_FILENO /\ rqst.err_fd < 0 /\ rqst.sub_cmd_n = -1
    /\ sent[1].anc[1].files = <<DevNull, StdFile(STDOUT_FILENO)>>

\* C2: a slot whose descriptor is unset carries an open descriptor for
\* /dev/null, no negative descriptor is ever in the ancillary data, and when
\* the placeholder cannot be opened the function returns 0 and sends nothing.
C2_Placeholder ==
    /\ \A i \in DOMAIN sent :
         LET c == sent[i].anc[1]
         IN  /\ \A j \in DOMAIN c.fds : c.fds[j] >= 0 /\ c.files[j] # Closed
             /\ rqst.err_fd < 0 => c.files[SigmetRawErrFD + 1] = DevNull
             /\ rqst.hd_fd < 0 => c.files[SigmetRawHdrDataFD + 1] = DevNull
    /\ <<req, "open_failed">> \in Range(log) => (pc = "returned" /\ ret = 0 /\ sent = <<>>)

\* a request was sent with both descriptors unset: both slots hold the placeholder
C2_Witness ==
    /\ IsLib /\ Len(sent) = 1 /\ rqst.hd_fd < 0 /\ rqst.err_fd < 0
    /\ sent[1].anc[1].files = <<DevNull, DevNull>>
    /\ sent[1].anc[1].fds[1] >= 0

\* the arguments of the SigmetRaw_Rqst_Set_DataType calls made since Init
IsDataTypeCall(c) == c[1] = "DataType"
DataTypeCalls == SelectSeq(calls, IsDataTypeCall)

\* C6: after SigmetRaw_Rqst_Init and one SigmetRaw_Rqst_Set_DataType(abbrv)
\* with abbrv of 1 to 16 characters, the 16-byte abbreviation field sent on
\* the wire holds every character of abbrv, followed by zero bytes up to 16.
C6_AbbrvOnWire ==
    \A i \in DOMAIN sent :
        (/\ Len(DataTypeCalls) = 1
         /\ Len(DataTypeCalls[1][2]) \in 1..SIGMET_DATA_TYPE_LEN)
        => sent[i].iov[2] = Padded(DataTypeCalls[1][2], SIGMET_DATA_TYPE_LEN)

(***************************************************************************)
(* Properties of the exchange with the daemon (checked under Spec, the     *)
(* temporal ones under SpecLive).                                          *)
(***************************************************************************)
\* the places of a step of request k in the log
At(k, step) == {i \in DOMAIN log : log[i] = <<k, step>>}
Happened(k, step) == At(k, step) # {}
\* every occurrence of step b of request k comes after an occurrence of step a
After(k, a, b) == \A i \in At(k, b) : \E j \in At(k, a) : j < i

\* C3: on every client request path the steps come in the order connect,
\* sendmsg of the request, recvmsg of the response, read of the bulk channel:
\* no byte of the bulk channel is read before the response has been received
\* on the socket.
C3_RecvBeforeRead ==
    \A k \in Reqs :
        /\ After(k, "connect", "sendmsg")
        /\ After(k, "sendmsg", "recvmsg")
        /\ After(k, "recvmsg", "read")

\* C4: every variable a client fills with recvmsg holds bytes of the slot of
\* the seven-slot response it is named for, from the first byte of that slot.
C4_SlotBytes ==
    \A v \in DOMAIN rps : \A i \in DOMAIN rps[v] :
        rps[v][i][1] = v /\ rps[v][i][2] = i

\* the response of the current request has arrived and its status is not Okay
ErrorReceived == Happened(req, "recvmsg") /\ RpsStatus # SigmetRawOkay

\* C5 as stated: whenever the status a client subcommand receives is not Okay,
\* the client copies the error channel to standard error until end of file,
\* exits with a non-zero code and prints no header or data output.
C5_ErrorExit ==
    (arg.cmd \in Executables /\ ErrorReceived) =>
        /\ pc \in {"errcopy", "exited"}
        /\ out = 0
        /\ pc = "exited" =>
             /\ exitCode # EXIT_SUCCESS
             /\ Happened(req, "eof_err")
             /\ errp[req] = 0
             /\ ~(dcur.req = req /\ dcur.errtxt > 0)

\* C5, amended: the same, unless fdopen on the read end of the error pipe
\* fails, in which case the client exits with a non-zero code without copying.
C5_ErrorExitUnlessFdopenFails ==
    (arg.cmd \in Executables /\ ErrorReceived) =>
        /\ pc \in {"errcopy", "exited"}
        /\ out = 0
        /\ pc = "exited" =>
             /\ exitCode # EXIT_SUCCESS
             /\ \/ Happened(req, "fdopen_failed")
                \/ /\ Happened(req, "eof_err")
                   /\ errp[req] = 0
                   /\ ~(dcur.req = req /\ dcur.errtxt > 0)

\* a client has copied an error text longer than the pipe to end of file and exited
C5_Witness ==
    /\ arg.cmd \in Executables /\ ErrorReceived
    /\ pc = "exited" /\ exitCode = EXIT_FAILURE
    /\ Happened(req, "eof_err") /\ errOut > PipeCap

\* C7: in the ray_headers socket path the value put in the TZ environment
\* variable equals the time_zone string the daemon reported for the volume.
C7_TZFromSlot6 ==
    (arg.cmd = "ray_hdrs_fm_skt" /\ envTZ # NoTZ) => envTZ = vol.tz

\* C8: with a daemon that replies before any bulk byte, writes the artifact
\* or the error text and closes the descriptors and the socket, each of
\* skt_to_txt, skt_to_bin and ray_hdrs_fm_skt eventually exits, whatever the
\* size of the artifact relative to the pipe capacity.
C8_ExecutablesExit == (arg.cmd \in Executables) => <>(pc = "exited")

\* ray_hdrs_fm_skt has exited after reading, from a stream that ended early,
\* more ray headers than the pipe holds at once
C8_Witness ==
    /\ arg.cmd = "ray_hdrs_fm_skt" /\ pc = "exited"
    /\ Len(got) > PipeCap /\ Len(got) < Need

\* C9: when the daemon writes fewer bytes than the volume headers take to the
\* bulk pipe and closes its descriptors, SigmetRaw_Dmn_VolHdr eventually
\* returns, and it returns 1 only after it has read the whole structure.
C9_VolHdrReturns ==
    /\ [](arg.cmd = "Dmn_VolHdr" /\ pc = "read" => <>(pc = "returned"))
    /\ [](arg.cmd = "Dmn_VolHdr" /\ pc = "returned" => (ret = 1 <=> Len(got) = VolHdrSz))

\* C10: ray_headers served by the daemon exits with code 0 only if it read
\* and printed exactly num_sweeps x num_rays_per_sweep ray-header lines, the
\* counts being those of the response.
C10_AllRayHdrs ==
    (arg.cmd = "ray_hdrs_fm_skt" /\ pc = "exited" /\ exitCode = EXIT_SUCCESS) =>
        /\ Len(got) = RpsInt("NumSwps") * RpsInt("NumRays")
        /\ out = RpsInt("NumSwps") * RpsInt("NumRays")

(***************************************************************************)
(* Properties of main and of the file functions (checked under SpecMain    *)
(* and SpecFl).                                                            *)
(***************************************************************************)
\* an abbreviation is given and it is the name of no data type
UnknownAbbrv == arg.abbrv # NoArg /\ arg.abbrv \notin Registered \cup {DB_XHDR}

\* C11: for an abbreviation that matches no registered data type, data and
\* ray_headers (when it is given a type) write "<abbrv> is not a Sigmet data
\* type." to standard error and exit with a non-zero code, whether the path
\* is a file or a socket, and nothing else is done.
C11_UnknownType ==
    UnknownAbbrv =>
        \/ pc \in {"main", "type"}
        \/ /\ pc = "exited" /\ exitCode # EXIT_SUCCESS
           /\ stderr = <<<<arg.prog, ": ", arg.abbrv, " is not a Sigmet data type.">>>>
           /\ lines = <<>> /\ sink = 0 /\ log = <<>>

\* ray_headers with an unknown type and the path of a socket has exited
C11_Witness ==
    /\ UnknownAbbrv /\ arg.prog = "ray_headers" /\ arg.path = "socket"
    /\ pc = "exited" /\ exitCode = EXIT_FAILURE /\ stderr # <<>>

\* the sweep argument of a file command is outside the volume
SwpOutOfRange ==
    /\ arg.path = "file"
    /\ IF arg.prog = "data" THEN MainS < 0 \/ MainS >= vol.num_swps
       ELSE MainISwp # UINT_MAX /\ (MainISwp[1] > 0 \/ MainISwp[2] >= vol.num_swps)

\* C12: when reading from a file, a sweep index outside [0, num_sweeps) is
\* rejected with a non-zero exit before any ray is read or printed; for
\* ray_headers UINT_MAX is not rejected, it means all sweeps.
C12_SwpRange ==
    SwpOutOfRange =>
        /\ pc \notin {"fl_read", "fl_print"}
        /\ ~Happened(0, "read_dat") /\ lines = <<>> /\ sink = 0
        /\ pc = "exited" => exitCode # EXIT_SUCCESS

\* data with the sweep "-1" on a file has been rejected for its sweep index
C12_Witness ==
    /\ SwpOutOfRange /\ arg.prog = "data" /\ arg.s_s = STR_MINUS1
    /\ pc = "exited" /\ exitCode = EXIT_FAILURE
    /\ stderr = <<<<arg.prog, ": sweep index out of range.">>>>

(***************************************************************************)
(* The sweep index on the wire (C13 under Spec, C14 under SpecRqst).       *)
(***************************************************************************)
\* the arguments of the calls of SigmetRaw_Rqst_Set_Swp, in order
SwpCalls == SelectSeq(calls, LAMBDA c : c[1] = "Swp")

\* C13: the data command asks for one sweep: whatever integer sweep argument
\* it accepts, -1 included, the sweep field of the RayHeaders and Data
\* requests it sends is never UINT_MAX, the value that means all sweeps.
C13_OneSweep ==
    arg.cmd \in {"skt_to_txt", "skt_to_bin"} =>
        \A i \in DOMAIN sent : ~SigmetRaw_GetAllSwps(U32(sent[i].iov[3]))

\* C14: the sweep field on the wire, read back as an unsigned, is the u of the
\* last SigmetRaw_Rqst_Set_Swp(u), and SigmetRaw_GetAllSwps of what is read
\* back is true exactly when u is UINT_MAX.
C14_SwpRoundTrip ==
    \A i \in DOMAIN sent :
        SwpCalls # <<>> =>
            LET u == SwpCalls[Len(SwpCalls)][2]
                w == U32(sent[i].iov[3])
            IN  /\ w = u
                /\ SigmetRaw_GetAllSwps(w) <=> u = UINT_MAX
                /\ SigmetRaw_GetAllSwps(w) <=> rqst.s = -1

\* a request was sent after SigmetRaw_Rqst_Set_Swp(2^31), which is stored as INT_MIN
C14_Witness ==
    /\ IsLib /\ Len(sent) = 1 /\ SwpCalls # <<>>
    /\ SwpCalls[Len(SwpCalls)][2] = <<32768, 0>>
    /\ rqst.s < 0 /\ U32(sent[1].iov[3]) = <<32768, 0>>

(***************************************************************************)
(* Connections (checked under Spec).                                       *)
(***************************************************************************)
\* the requests whose socket the client holds open
SktsHeld == {k \in Reqs : ClientHolds(File("skt", "rw", k))}
\* the request messages sent on the socket of request k
SentOn(k) == {i \in DOMAIN sent : sent[i].req = k}

\* C15: each request of an executable has its own connection: on a connected
\* socket one request message is sent and at most one response received, in
\* this order, and the socket is closed before the next connection is made
\* and at exit; skt_to_txt, which needs the ray headers and then the data,
\* makes two connections.
C15_OwnConnection ==
    arg.cmd \in Executables =>
        /\ \A k \in Reqs :
             /\ Cardinality(At(k, "connect")) <= 1
             /\ Cardinality(At(k, "sendmsg")) <= 1
             /\ Cardinality(At(k, "recvmsg")) <= 1
             /\ Cardinality(SentOn(k)) = Cardinality(At(k, "sendmsg"))
             /\ After(k, "connect", "sendmsg")
             /\ After(k, "sendmsg", "recvmsg")
        /\ SktsHeld \subseteq {req}
        /\ SktsHeld # {} => Happened(req, "connect")
        /\ Happened(2, "connect") =>
             /\ arg.cmd = "skt_to_txt"
             /\ \A i \in At(2, "connect") : \E j \in At(1, "recvmsg") : j < i
        /\ arg.cmd = "skt_to_txt" /\ Happened(req, "recvmsg") => SktsHeld = {}
        /\ pc = "exited" => SktsHeld = {}
        /\ arg.cmd = "skt_to_txt" /\ pc = "exited" /\ exitCode = EXIT_SUCCESS =>
             /\ Happened(1, "connect") /\ Happened(2, "connect")
             /\ Cardinality(SentOn(1)) = 1 /\ Cardinality(SentOn(2)) = 1
             /\ Happened(1, "recvmsg") /\ Happened(2, "recvmsg")

\* skt_to_txt has finished after a RayHeaders request and a Data request
C15_Witness ==
    /\ arg.cmd = "skt_to_txt" /\ pc = "exited" /\ exitCode = EXIT_SUCCESS
    /\ Len(sent) = 2 /\ sent[1].req = 1 /\ sent[2].req = 2
    /\ I32(sent[1].iov[1]) = SigmetRawRayHeaders /\ I32(sent[2].iov[1]) = SigmetRawData

(***************************************************************************)
(* Properties of copy_bits_packed_right (checked under SpecBits).          *)
(***************************************************************************)
\* C16: after copy_bits_packed_right(src, dest, o, n), for every i in [0, n)
\* bit i mod 8 of byte i div 8 of dest equals bit (o + i) mod 8 of byte
\* (o + i) div 8 of src.
C16_BitsCopied ==
    pc = "cb_done" =>
        \A i \in 0..(cb_n - 1) :
            Bit(dest_bytes[i \div 8 + 1], i % 8)
                = Bit(src_bytes[(cb_o + i) \div 8 + 1], (cb_o + i) % 8)

\* C17: copy_bits_packed_right writes the first ceil(n / 8) bytes of dest and
\* no other: the bytes from ceil(n / 8) on keep their value throughout, after
\* the call the bits n .. 8 * ceil(n / 8) - 1 are zero, and for n = 0 dest is
\* as it was.
C17_BytesWritten ==
    /\ \A k \in DOMAIN dest_bytes : k > BytesFor(cb_n) => dest_bytes[k] = dest0[k]
    /\ pc = "cb_done" =>
         /\ \A i \in cb_n..(8 * BytesFor(cb_n) - 1) : Bit(dest_bytes[i \div 8 + 1], i % 8) = 0
         /\ cb_n = 0 => dest_bytes = dest0

(***************************************************************************)
(* Properties of the output made from a file (checked under SpecFl).       *)
(***************************************************************************)
\* the sweep and the ray of line k of ray_hdrs_fm_fl
LineSwp(k) == S0 + (k - 1) \div vol.num_rays
LineRay(k) == (k - 1) % vol.num_rays

\* C20: the time ray_hdrs_fm_fl prints for a ray is the start of the sweep
\* plus the time of the extended header of the ray when bit 0 of mask word 0
\* of the volume is set, and the start of the sweep plus ray_hdr.tm when it
\* is not; with extended headers ray_hdr.tm is not used.
C20_RayTime ==
    arg.prog = "ray_headers" =>
        \A k \in DOMAIN lines :
            LET s == LineSwp(k)
                r == LineRay(k)
                tm == lines[k][3]
            IN  /\ lines[k][1] = s /\ lines[k][2] = r
                /\ tm[1] = SwpTm(s)
                /\ vol.mask_wd0 % 2 = 0 => tm[3] = RayHdrTm(s, r)
                /\ vol.mask_wd0 % 2 = 1 =>
                     /\ tm[3] # RayHdrTm(s, r)
                     /\ vol.rays[r + 1].present => tm[3] = XHdrTm(s, r)

\* ray_headers has printed, for a volume with extended headers, the second
\* ray of the last sweep with the time of its extended header
C20_Witness ==
    /\ arg.prog = "ray_headers" /\ vol.mask_wd0 % 2 = 1 /\ pc = "exited"
    /\ vol.num_swps = MaxSwps /\ Len(lines) = MaxSwps * vol.num_rays /\ vol.num_rays > 1
    /\ lines[Len(lines)][3] = <<SwpTm(MaxSwps - 1), "+", XHdrTm(MaxSwps - 1, vol.num_rays - 1)>>

(***************************************************************************)
(* Properties of the text output of skt_to_txt (checked under SpecTxt).    *)
(***************************************************************************)
\* skt_to_txt has written its output and exited
TxtDone == arg.cmd = "skt_to_txt" /\ req = 2 /\ pc = "exited" /\ exitCode = EXIT_SUCCESS

\* the largest bin count in the ray headers of the sweep
VolBinsMax == NumBinsMax([k \in 1..vol.num_rays |-> vol.rays[k].num_bins])

\* C18: the text output of data has one line per ray of the sweep, every line
\* has num_bins_max values, the first num_bins values of a ray that has data
\* are its converted values, and every position past the bin count of a ray,
\* and every position of an absent ray, is NaN.
C18_TextOutput ==
    TxtDone =>
        /\ Len(lines) = vol.num_rays
        /\ \A k \in DOMAIN lines :
             /\ Len(lines[k]) = VolBinsMax
             /\ \A b \in DOMAIN lines[k] :
                  lines[k][b] = IF vol.rays[k].present /\ b <= vol.rays[k].num_bins
                                THEN <<"f", 0, k - 1, b - 1>>
                                ELSE NaN

\* the values of the stream that come before those of ray k
BinsBefore(k) == SumSeq(SubSeq(rhdrs, 1, k - 1))

\* C19: skt_to_txt reads the sum of the bin counts of the ray headers it
\* received, and prints ray r from the values of the stream at the positions
\* from the sum of the bin counts of the rays before r on, num_bins of them:
\* every value received is printed once, in the order of the stream.
C19_StreamSplit ==
    /\ arg.cmd = "skt_to_txt" /\ req = 2 => Len(got) <= SumSeq(rhdrs)
    /\ TxtDone =>
         /\ Len(got) = SumSeq(rhdrs)
         /\ got = DmnSwpVals(0)
         /\ Len(lines) = Len(rhdrs)
         /\ \A k \in DOMAIN lines :
              SubSeq(lines[k], 1, rhdrs[k]) = SubSeq(got, BinsBefore(k) + 1, BinsBefore(k) + rhdrs[k])
         /\ Flatten([k \in DOMAIN lines |-> SubSeq(lines[k], 1, rhdrs[k])]) = got
         /\ dat = Len(got)

\* two rays with data, the first with more bins than the second, were printed
C19_Witness ==
    /\ TxtDone /\ Len(rhdrs) = 2 /\ rhdrs[1] = 2 /\ rhdrs[2] = 1
    /\ lines = <<<<got[1], got[2]>>, <<got[3], NaN>>>>
    /\ got = <<<<"f", 0, 0, 0>>, <<"f", 0, 0, 1>>, <<"f", 0, 1, 0>>>>

(***************************************************************************)
(* The data types of a volume (checked under SpecMask).                    *)
(***************************************************************************)
\* the volume headers have been read
VHdrRead == pc \in {"fl_chk", "fl_read", "fl_print"} \/ (pc = "exited" /\ lines # <<>>)
\* the bit of a data type in mask word 0
BitOf(t) == CHOOSE b \in 0..(Len(MaskTypes) - 1) : MaskTypes[b + 1] = t
\* the bits set in the mask of the volume
MaskBits == {b \in 0..(Len(MaskTypes) - 1) : Bit(vol.mask_wd0, b) = 1}
\* the lowest bit of a measurement set in the mask
FirstRealBit == CHOOSE b \in MaskBits \ {0} : \A c \in MaskBits \ {0} : b <= c

\* C21: the types of a volume are the types of the bits set in its mask, in
\* ascending order of the bits and without duplicates (bits 1 and 3 give the
\* type of bit 1, then the type of bit 3); when bit 0 is set the extended
\* header is at index 0 and the default type index, the first real
\* measurement, is 1.
C21_MaskOrder ==
    VHdrRead =>
        /\ \A i, j \in DOMAIN vol.types :
               i < j => BitOf(vol.types[i]) < BitOf(vol.types[j])
        /\ Range(vol.types) = {MaskTypes[b + 1] : b \in MaskBits}
        /\ Len(vol.types) = Cardinality(MaskBits)
        /\ vol.mask_wd0 = 10 => vol.types = <<DB_DBT, DB_VEL>>
        /\ Sigmet_VolXHdr(vol) => vol.types[1] = DB_XHDR
        /\ arg.abbrv = NoArg =>
               /\ vol.types[TypeIdx + 1] = MaskTypes[FirstRealBit + 1]
               /\ Sigmet_VolXHdr(vol) => TypeIdx = 1

\* ray_headers without a type has printed the rays of a volume with the bits
\* 0, 1 and 3
C21_Witness ==
    /\ pc = "exited" /\ exitCode = EXIT_SUCCESS /\ lines # <<>>
    /\ arg.abbrv = NoArg /\ vol.mask_wd0 = 11

(***************************************************************************)
(* Properties of the decompression (checked under SpecDec).                *)
(***************************************************************************)
\* the tokens of ray r of the sweep: <<the tokens before its end-of-ray
\* token>>, <<>> when the tokens stop or the sweep ends before that token
RECURSIVE RayToks(_, _, _)
RayToks(toks, r, acc) ==
    IF toks = <<>> \/ Head(toks).kind = "end_swp" THEN <<>>
    ELSE IF Head(toks).kind = "end_ray"
         THEN (IF r = 0 THEN <<acc>> ELSE RayToks(Tail(toks), r - 1, <<>>))
         ELSE RayToks(Tail(toks), r, Append(acc, Head(toks)))
HasRay(r) == RayToks(dc_toks, r, <<>>) # <<>>
\* the literal words and the zero words of the tokens of ray r, in token order
Expand(toks) ==
    Flatten([i \in DOMAIN toks |-> IF toks[i].kind = "lit" THEN toks[i].wds
                                   ELSE Zeros(toks[i].k)])
Expected(r) == Expand(RayToks(dc_toks, r, <<>>)[1])
\* the decoder has returned
DecReturned == pc \in {"dc_done", "dc_failed"}
\* ray r has been emitted, and its body in the sample buffer
Emitted(r) == r + 1 <= Len(dc_len)
RayBody(r) == SubSeq(dc_buf, r * RaySz + 1, r * RaySz + dc_len[r + 1])
\* the rays of the volume up to ray r have their tokens and fit their size
FitsUpTo(r) == \A q \in 0..r : HasRay(q) /\ Len(Expected(q)) <= RaySz

RunOverflows ==
    /\ pc = "dc_token" /\ HasWd(dc_rd)
    /\ dc_file[WdPos(dc_rd)] > TopBit
    /\ dc_file[WdPos(dc_rd)] - TopBit > Room
\* the next token is the end of a ray
AtEndRay == pc = "dc_token" /\ HasWd(dc_rd) /\ dc_file[WdPos(dc_rd)] = 0

\* C23: the output cursor never passes the end of the extent of the current
\* ray nor the end of the sample buffer; a zero run longer than the room left
\* takes the cursor to the end of the ray and the decoder goes on; the ray
\* is emitted, with its full size, at its end-of-ray token.
C23_RunTruncated ==
    [][/\ dc_cur' <= Len(dc_buf')
       /\ dc_ray' < vol.num_rays => dc_cur' <= RayEnd(dc_ray')
       /\ RunOverflows =>
             /\ dc_cur' = RayEnd(dc_ray) /\ dc_ray' = dc_ray
             /\ pc' = "dc_token" /\ dc_err' = <<>>
             /\ \A i \in (dc_cur + 1)..RayEnd(dc_ray) : dc_buf'[i] = 0
       /\ (AtEndRay /\ dc_ray \in dc_trunc) => dc_len' = Append(dc_len, RaySz)]_vars

\* a ray in which a run was cut has been emitted
C23_Witness ==
    /\ pc = "dc_done"
    /\ \E r \in dc_trunc : Emitted(r) /\ dc_len[r + 1] = RaySz

(***************************************************************************)
(* The ends of the pipes (checked under Spec).                             *)
(***************************************************************************)
\* the client is reading: fread on the bulk pipe, fgetc on the error pipe
ReadsBulk == pc = "read"
ReadsErr == pc = "errcopy"

\* C24: while a client reads the bulk pipe or the error pipe of a request, no
\* descriptor of the client refers to the write end of that pipe: the daemon
\* is the only writer, on every client path that reads a pipe.
C24_WriteEndClosed ==
    /\ ReadsBulk => ~ClientHolds(File("bulk", "w", req))
    /\ ReadsErr => ~ClientHolds(File("err", "w", req))

\* C25: when skt_to_bin has exited with code 0, the daemon has written the
\* whole sweep to the standard output it was given as the bulk channel.
C25_ExitAfterTransfer ==
    (arg.cmd = "skt_to_bin" /\ pc = "exited" /\ exitCode = EXIT_SUCCESS) =>
        sink = Len(Artifact(SigmetRawData, arg.s))

(***************************************************************************)
(* The abbreviation field after several calls (checked under SpecRqst).    *)
(***************************************************************************)
\* C26: after SigmetRaw_Rqst_Init and any SigmetRaw_Rqst_Set_DataType calls,
\* the abbreviation field is its string followed only by zero bytes, and the
\* string is the abbreviation of the last call (when that one fits with its
\* terminator): nothing of an earlier, longer abbreviation is left.
C26_AbbrvZeroPadded ==
    DataTypeCalls # <<>> =>
        /\ rqst.abbrv = Padded(CStr(rqst.abbrv), SIGMET_DATA_TYPE_LEN)
        /\ Len(DataTypeCalls[Len(DataTypeCalls)][2]) < SIGMET_DATA_TYPE_LEN =>
              CStr(rqst.abbrv) = DataTypeCalls[Len(DataTypeCalls)][2]

(***************************************************************************)
(* The two requests of skt_to_txt (checked under Spec).                    *)
(***************************************************************************)
\* the step in which the connection of request k is opened
Connects(k) == log' # log /\ log'[Len(log')] = <<k, "connect">>

\* C27: when skt_to_txt opens the connection for the Data request, the
\* response to the RayHeaders request has been received, the first socket is
\* closed and as many ray headers as the response counted have been read from
\* the pipe; the Data request carries the abbreviation and the sweep of the
\* RayHeaders request.
C27_HeadersFirst ==
    [][arg.cmd = "skt_to_txt" =>
          /\ Connects(2) =>
                /\ Happened(1, "recvmsg")
                /\ ~ClientHolds(File("skt", "rw", 1))
                /\ RpsInt("NumRays") > 0
                /\ Len(rhdrs) = RpsInt("NumRays")
          /\ Len(sent') = 2 =>
                /\ I32(sent'[1].iov[1]) = SigmetRawRayHeaders
                /\ I32(sent'[2].iov[1]) = SigmetRawData
                /\ sent'[2].iov[2] = sent'[1].iov[2]
                /\ sent'[2].iov[3] = sent'[1].iov[3]]_vars

\* skt_to_txt has sent its Data request after reading two ray headers
C27_Witness ==
    /\ arg.cmd = "skt_to_txt" /\ Len(sent) = 2
    /\ Happened(2, "connect") /\ Len(rhdrs) = 2

(***************************************************************************)
(* The failures of skt_to_txt (checked under SpecTxt).                     *)
(***************************************************************************)
\* the response to the RayHeaders request arrives with status Okay and a ray
\* count that is not positive
GetsBadRayCount ==
    /\ req = 1 /\ pc = "recv" /\ rps' # rps
    /\ RpsStatus' = SigmetRawOkay /\ RpsInt("NumRays")' <= 0
\* fread has returned fewer ray headers than the response counted
ShortRayHdrs == req = 1 /\ pc = "after_read" /\ Len(got) < RpsInt("NumRays")
\* fread has returned fewer floats than the bin counts of the ray headers sum to
ShortData == req = 2 /\ pc = "after_read" /\ Len(got) < SumSeq(rhdrs)

\* C28: skt_to_txt exits with a code that is not zero, having printed no data
\* line, when the ray count of the response is not positive, when the pipe
\* gives it fewer ray headers than that count, and when the pipe gives it
\* fewer floats than the bin counts of the ray headers sum to; the lines are
\* printed only after both reads were complete.
C28_ShortReadsFail ==
    [][/\ (GetsBadRayCount \/ ShortRayHdrs \/ ShortData) =>
             /\ pc' = "exited" /\ exitCode' # EXIT_SUCCESS
             /\ lines' = <<>> /\ out' = 0
       /\ lines' # lines =>
             /\ req = 2 /\ Len(rhdrs) > 0 /\ Len(got) = SumSeq(rhdrs)
             /\ pc' = "exited" /\ exitCode' = EXIT_SUCCESS]_vars

\* skt_to_txt has failed on a data pipe that gave it one float of two
C28_Witness ==
    /\ pc = "exited" /\ exitCode = EXIT_FAILURE /\ lines = <<>>
    /\ req = 2 /\ Len(got) = 1 /\ SumSeq(rhdrs) = 2

(***************************************************************************)
(* ray_headers on a file and on the daemon's socket (checked under Spec).  *)
(***************************************************************************)
\* the sweep index, the ray index and the bin count in the lines that
\* ray_hdrs_fm_fl prints for the volume and the sweep argument i_swp
FlRayHdrLines(i_swp) ==
    [k \in 1..((SwpEnd(i_swp, vol.num_swps) - SwpFirst(i_swp)) * vol.num_rays) |->
        <<SwpFirst(i_swp) + (k - 1) \div vol.num_rays, (k - 1) % vol.num_rays,
          vol.rays[((k - 1) % vol.num_rays) + 1].num_bins>>]
\* ray_hdrs_fm_skt has printed all the ray headers of the response
SktHdrsPrinted ==
    /\ arg.cmd = "ray_hdrs_fm_skt" /\ pc = "exited" /\ exitCode = EXIT_SUCCESS
    /\ Len(got) = RpsInt("NumSwps") * RpsInt("NumRays")

\* C29: for the same volume, data type and sweep argument ray_hdrs_fm_skt
\* prints the lines ray_hdrs_fm_fl prints: the same sweep index, ray index and
\* bin count at the same place, also for one sweep i > 0.
C29_SameLines == SktHdrsPrinted => lines = FlRayHdrLines(arg.s)

(***************************************************************************)
(* Binary output made from a file (checked under SpecFl).                  *)
(***************************************************************************)
\* data -b has written the sweep of a file
BinWritten == arg.prog = "data" /\ ~Txt /\ pc = "exited" /\ exitCode = EXIT_SUCCESS
\* the rays of the sweep that have data, in ray order
RaysWithData == SelectSeq([k \in 1..vol.num_rays |-> k - 1], LAMBDA r : vol.rays[r + 1].present)

\* C30: the binary output of data_fm_fl is, ray after ray, the num_bins
\* converted values of every ray that has data and nothing for a ray that has
\* none, so that the floats written are as many as the bin counts of the rays
\* with data sum to.
C30_BinaryOutput ==
    BinWritten =>
        /\ Len(lines) = Len(RaysWithData)
        /\ \A k \in DOMAIN lines :
             /\ Len(lines[k]) = vol.rays[RaysWithData[k] + 1].num_bins
             /\ \A b \in DOMAIN lines[k] : lines[k][b] = <<"f", MainS, RaysWithData[k], b - 1>>
        /\ sink = Len(Flatten(lines))
        /\ sink = SumSeq([k \in DOMAIN RaysWithData |-> vol.rays[RaysWithData[k] + 1].num_bins])

\* two rays, the first without data and with two bins in its header, the
\* second with one bin: one float has been written
C30_Witness ==
    /\ BinWritten /\ vol.num_rays = 2 /\ sink = 1
    /\ ~vol.rays[1].present /\ vol.rays[1].num_bins = 2
    /\ vol.rays[2].present /\ vol.rays[2].num_bins = 1

(***************************************************************************)
(* A response that does not arrive (checked under SpecDrop).               *)
(***************************************************************************)
\* the client leaves recvmsg
RecvReturns == pc = "recv" /\ pc' # "recv"
\* the status variable holds an Okay that was received
OkayReceived == Len(rps.Status) = SizeofInt /\ RpsStatus = SigmetRawOkay

\* C31: a client that leaves recvmsg with no byte of a response, because the
\* daemon closed the connection or because recvmsg failed, goes to the copy
\* of the error channel or exits with a code that is not zero; from the copy
\* of the error channel it only exits with EXIT_FAILURE; it goes on to read
\* the bulk channel, or exits with EXIT_SUCCESS, only with a status Okay that
\* was received.
C31_OkayReceived ==
    [][/\ (RecvReturns /\ sock[req] = <<>>) =>
             /\ pc' \in {"errcopy", "exited"}
             /\ pc' = "exited" => exitCode' = EXIT_FAILURE
       /\ pc = "errcopy" =>
             /\ pc' \in {"errcopy", "exited"}
             /\ pc' = "exited" => exitCode' = EXIT_FAILURE
       /\ (RecvReturns /\ pc' = "read") => OkayReceived'
       /\ (pc # "exited" /\ pc' = "exited" /\ exitCode' = EXIT_SUCCESS) => OkayReceived']_vars

\* skt_to_txt has exited with EXIT_FAILURE after the daemon closed the
\* connection of the Data request without a response
C31_Witness ==
    /\ arg.cmd = "skt_to_txt" /\ req = 2 /\ Happened(2, "recvmsg")
    /\ rps.Status = <<>> /\ sock[2] = <<>>
    /\ pc = "exited" /\ exitCode = EXIT_FAILURE

(***************************************************************************)
(* The descriptors of SigmetRaw_Rqst_Send (checked under SpecRqst).        *)
(***************************************************************************)
\* the descriptors of the table that are open on the placeholder file
PlaceholderFds == {fd \in DOMAIN cfd : cfd[fd] = DevNull}

\* C32: when SigmetRaw_Rqst_Send has returned, with 1 or with 0, no
\* descriptor of the caller is open on the placeholder /dev/null.
C32_PlaceholderClosed == (IsLib /\ pc = "returned") => PlaceholderFds = {}

(***************************************************************************)
(* The pipe of SigmetRaw_Dmn_VolHdr (checked under Spec).                  *)
(***************************************************************************)
\* the caller holds an end of the pipe the function made
HoldsVolHdrPipe == ClientHolds(File("bulk", "r", 1)) \/ ClientHolds(File("bulk", "w", 1))

\* C33: when SigmetRaw_Dmn_VolHdr has returned, with 1 or with 0, neither end
\* of the pipe it made is open in the caller's descriptor table.
C33_PipeClosed == (arg.cmd = "Dmn_VolHdr" /\ pc = "returned") => ~HoldsVolHdrPipe

(***************************************************************************)
(* SigmetRaw_DmnConnect (checked under SpecConn).                          *)
(***************************************************************************)
\* the system call was made in the call of SigmetRaw_DmnConnect
Called(name) == \E i \in DOMAIN log' : log'[i] = <<1, name>>

\* C34: SigmetRaw_DmnConnect returns the descriptor of a socket that it has
\* opened and connected, the caller's other descriptors being as they were,
\* or it returns -1 with the caller's descriptor table as it was before the
\* call, whether socket failed, the path was too long or connect failed; for
\* a path that is too long connect is not called.
C34_ConnectOrNothing ==
    [][pc = "conn_call" =>
          /\ ret' \in Fds \cup {-1}
          /\ ret' \in Fds =>
                /\ Called("connect") /\ ~Called("close")
                /\ cfd[ret'] = Closed
                /\ cfd' = Install(cfd, ret', File("skt", "rw", 1))
          /\ ret' = -1 => cfd' = cfd
          /\ ~PathFits(arg.path_len) => ret' = -1 /\ ~Called("connect")]_vars

\* connect has failed: -1 is returned and no socket is in the table
C34_Witness ==
    /\ arg.cmd = "DmnConnect" /\ pc = "returned" /\ ret = -1
    /\ Happened(1, "connect") /\ Happened(1, "close")
    /\ ~ClientHolds(File("skt", "rw", 1))

(***************************************************************************)
(* What SigmetRaw_Rqst_Send leaves alone (checked under SpecRqst).         *)
(***************************************************************************)
\* the library caller is in its call of SigmetRaw_Rqst_Send
SendReturns == IsLib /\ pc = "build" /\ pc' = "returned"

\* C35: a call of SigmetRaw_Rqst_Send, whether it returns 1 or 0, changes no
\* field of the request, and every descriptor that was open before the call,
\* among them err_fd, hd_fd and the socket, is open on the same file after it.
C35_CallerStateKept ==
    [][SendReturns =>
          /\ rqst' = rqst
          /\ \A fd \in Fds : IsOpen(cfd, fd) => cfd'[fd] = cfd[fd]]_vars

\* a request with both descriptors set has been sent, and they are open
C35_Witness ==
    /\ IsLib /\ pc = "returned" /\ ret = 1
    /\ rqst.err_fd = loc.err_w /\ rqst.hd_fd = loc.bulk_w
    /\ IsOpen(cfd, loc.err_w) /\ IsOpen(cfd, loc.bulk_w) /\ IsOpen(cfd, loc.skt)

(***************************************************************************)
(* The indices into the ray grid (checked under SpecGrid).                 *)
(***************************************************************************)
\* y_hxdr of ray_hdrs_fm_fl
YXHdr == Sigmet_VolTypeIdx(DB_XHDR, vol)
\* the elements rays[s][r][y] the function reads once Sigmet_VolReadDat has
\* filled the grid: data_fm_fl reads the rays of sweep s for the type,
\* ray_hdrs_fm_fl the rays of the sweeps s0 .. s1 - 1 for the type and, with
\* extended headers, for y_hxdr
RayAccesses ==
    IF arg.prog = "data"
    THEN {<<MainS, r, TypeIdx>> : r \in 0..(vol.num_rays - 1)}
    ELSE {<<sr[1], sr[2], TypeIdx>> : sr \in (S0..(S1 - 1)) \X (0..(vol.num_rays - 1))}
         \cup (IF Sigmet_VolXHdr(vol)
               THEN {<<sr[1], sr[2], YXHdr>> : sr \in (S0..(S1 - 1)) \X (0..(vol.num_rays - 1))}
               ELSE {})
\* the element is in the grid rays[num_swps][num_rays][num_types]
InGrid(a) ==
    /\ 0 <= a[1] /\ a[1] < vol.num_swps
    /\ 0 <= a[2] /\ a[2] < vol.num_rays
    /\ 0 <= a[3] /\ a[3] < Len(vol.types)

C37_NoNullDat == ~Happened(0, "StorToVal(NULL)")

(***************************************************************************)
(* create_3d_float_array (alloc3f.c).  An address is a byte address in an  *)
(* address space as wide as size_t, 0 is NULL, and pointer arithmetic      *)
(* wraps as size_t arithmetic does.  arg holds num_i, num_j and num_k;     *)
(* loc holds the block malloc returned, the size it was asked for, the     *)
(* loop counter i, the pointers stored so far (mem: address of the slot to *)
(* the pointer in it, -1 where nothing was stored) and the addresses of    *)
(* the stores that fell outside the block (wild); ret is the return value. *)
(***************************************************************************)
\* size_t ptrs_size = num_i * sizeof(float **) + num_i * num_j * sizeof(float *)
ptrs_size(num_i, num_j) == SizeT(SizeT(num_i * PtrSz) + SizeT(SizeT(num_i * num_j) * PtrSz))

\* size_t data_size = num_i * num_j * num_k * sizeof(float)
data_size(num_i, num_j, num_k) == SizeT(SizeT(SizeT(num_i * num_j) * num_k) * FloatSz)

\* the argument of malloc: ptrs_size + data_size
MallocSize(num_i, num_j, num_k) == SizeT(ptrs_size(num_i, num_j) + data_size(num_i, num_j, num_k))

\* float **f_j = (float **)(block + num_i * sizeof(float **))
f_j(block, num_i) == SizeT(block + SizeT(num_i * PtrSz))

\* float *f_k = (float *)(block + ptrs_size)
f_k(block, num_i, num_j) == SizeT(block + ptrs_size(num_i, num_j))

\* the address of f[i], a slot of the first table
SlotI(f, i) == SizeT(f + i * PtrSz)

\* f[i] = f_j + i * num_j
RowTable(block, num_i, num_j, i) == SizeT(f_j(block, num_i) + SizeT(i * num_j) * PtrSz)

\* the address of f[i][j], a slot of the table f[i] points to
SlotJ(fi, j) == SizeT(fi + j * PtrSz)

\* f[i][j] = f_k + (i * num_j * num_k) + (j * num_k)
RowData(block, num_i, num_j, num_k, i, j) ==
    SizeT(f_k(block, num_i, num_j)
            + (SizeT(SizeT(i * num_j) * num_k) + SizeT(j * num_k)) * FloatSz)

\* the sz bytes at address a lie in the block malloc returned
InBlock(a, sz) == loc.block <= a /\ a + sz <= loc.block + loc.size

\* the store of pointer p into the slot at address a
StorePtr(st, a, p) ==
    [mem |-> [st.mem EXCEPT ![a] = p],
     wild |-> IF InBlock(a, PtrSz) THEN st.wild ELSE st.wild \cup {a}]

\* the loop over j of pass i, from j on.  f[i] is read for every store; a
\* build may keep it in a register (hoist), which shows when a store to
\* f[i][j] lands on the slot of f[i].
RECURSIVE InnerLoop(_, _, _, _, _)
InnerLoop(st, fi, i, j, hoist) ==
    IF j >= arg.num_j THEN st
    ELSE LET cur == IF hoist THEN fi ELSE st.mem[SlotI(loc.block, i)]
             nxt == StorePtr(st, SlotJ(cur, j),
                          RowData(loc.block, arg.num_i, arg.num_j, arg.num_k, i, j))
         IN InnerLoop(nxt, fi, i, SizeT(j + 1), hoist)

\* pass i of the loop over i
OuterPass(i, hoist) ==
    LET fi == RowTable(loc.block, arg.num_i, arg.num_j, i)
    IN InnerLoop(StorePtr([mem |-> loc.mem, wild |-> loc.wild], SlotI(loc.block, i), fi),
                 fi, i, 0, hoist)

NoMem == [a \in 0..SIZE_MAX |-> -1]
NoBlock == [block |-> 0, size |-> 0, i |-> 0, mem |-> NoMem, wild |-> {}]

alRest == <<arg, vol, req, todo, nsets, rqst, cfd, exitCode, sent, rps, got, rhdrs,
            out, errOut, envTZ, log, calls, outVars, daemonVars, chanVars, bitVars>>

\* char *block = malloc(ptrs_size + data_size); if (!block) return NULL;
\* malloc fails, or returns a block of the size asked for somewhere in the
\* address space, the address one past its end being an address too
AlMalloc ==
    /\ pc = "al_call"
    /\ \E size \in {MallocSize(arg.num_i, arg.num_j, arg.num_k)} :
         \E block \in 0..SIZE_MAX :
            /\ block + size <= SIZE_MAX
            /\ loc' = [NoBlock EXCEPT !.block = block, !.size = size]
            /\ IF block = 0
               THEN pc' = "al_done" /\ ret' = 0
               ELSE pc' = "al_loop" /\ UNCHANGED ret
    /\ UNCHANGED alRest

\* the test of the loop over i and one pass through its body.  A store
\* outside the block is undefined: the process is killed, or the store
\* lands in memory that is not the block's and the loop goes on.
AlLoop ==
    /\ pc = "al_loop"
    /\ IF loc.i < arg.num_i
       THEN \E hoist \in BOOLEAN : \E st \in {OuterPass(loc.i, hoist)} :
              \/ /\ loc' = [loc EXCEPT !.mem = st.mem, !.wild = st.wild, !.i = SizeT(loc.i + 1)]
                 /\ UNCHANGED <<pc, ret>>
              \/ /\ st.wild # loc.wild
                 /\ pc' = "al_fault"
                 /\ UNCHANGED <<loc, ret>>
       ELSE /\ ret' = loc.block
            /\ pc' = "al_done"
            /\ UNCHANGED loc
    /\ UNCHANGED alRest

NextAlloc == AlMalloc \/ AlLoop

InitAlloc ==
    /\ arg \in [cmd : {"create_3d_float_array"},
                num_i : 0..MaxDim, num_j : 0..MaxDim, num_k : 0..MaxDim]
    /\ vol \in {v \in Volumes : v.num_swps = 1 /\ v.num_rays = 1 /\ v.num_bins = 0}
    /\ pc = "al_call"
    /\ cfd = StdTable
    /\ loc = NoBlock
    /\ InitRest /\ NoBits

SpecAlloc == InitAlloc /\ [][NextAlloc]_vars

\* the return value is a pointer to an array
Returned == pc = "al_done" /\ ret # 0
\* f[i], f[i][j] and the address of f[i][j][k], read through the pointers
\* stored in the block
F1(i) == loc.mem[SlotI(ret, i)]
F2(i, j) == loc.mem[SlotJ(F1(i), j)]
Elem(i, j, k) == SizeT(F2(i, j) + k * FloatSz)
\* the index triples of the array
Triples == (0..(arg.num_i - 1)) \X (0..(arg.num_j - 1)) \X (0..(arg.num_k - 1))
\* the bytes the two pointer tables and the data take
TablesBytes == (arg.num_i + arg.num_i * arg.num_j) * PtrSz
DataBytes == arg.num_i * arg.num_j * arg.num_k * FloatSz
\* the pointer tables are where the loops meant them to be
TablesInPlace ==
    /\ \A i \in 0..(arg.num_i - 1) : SlotI(ret, i) = ret + i * PtrSz
    /\ \A i \in 0..(arg.num_i - 1) : \A j \in 0..(arg.num_j - 1) :
          SlotJ(F1(i), j) = ret + (arg.num_i + i * arg.num_j + j) * PtrSz

\* C38: when create_3d_float_array returns a non-null f, element f[i][j][k]
\* is (i * num_j + j) * num_k + k floats after f[0][0], distinct index
\* triples have distinct addresses, the data is one run of
\* num_i * num_j * num_k floats, the pointer tables and the data lie in the
\* block without overlapping; and the function returns NULL when malloc
\* fails.
C38_RowMajor ==
    /\ pc = "al_done" /\ loc.block = 0 => ret = 0
    /\ Returned =>
         /\ \A t \in Triples :
               Elem(t[1], t[2], t[3])
                  = F2(0, 0) + ((t[1] * arg.num_j + t[2]) * arg.num_k + t[3]) * FloatSz
         /\ \A t, u \in Triples :
               t # u => Elem(t[1], t[2], t[3]) # Elem(u[1], u[2], u[3])
         /\ TablesInPlace
         /\ InBlock(ret, TablesBytes)
         /\ Triples # {} =>
               /\ F2(0, 0) >= ret + TablesBytes
               /\ InBlock(F2(0, 0), DataBytes)

\* C39: the size passed to malloc is never smaller than the bytes the
\* pointer tables and the data need, and a non-null array that is returned
\* has its tables and rows in the allocated block.
C39_SizeCoversLoops ==
    /\ pc # "al_call" => loc.size >= TablesBytes + DataBytes
    /\ Returned =>
         /\ loc.wild = {}
         /\ \A i \in 0..(arg.num_i - 1) : \A j \in 0..(arg.num_j - 1) :
               InBlock(F2(i, j), arg.num_k * FloatSz)

====
